---- MODULE Spec2Model ----
(***************************************************************************)
(* Marketplace core of dealmate-marketplace: the purchase / completion /   *)
(* review handlers of MarketplaceService, the secret reveal, the rate      *)
(* limiter.  Every SQL statement is one atomic step of the store; a        *)
(* handler is the sequence of its statements, and concurrent requests      *)
(* interleave between statements.  Every statement followed by `?` may     *)
(* fail, which ends the request with an error and keeps what the earlier   *)
(* statements of the request wrote (no handler opens a transaction).       *)
(*                                                                         *)
(* f64 quantities (trust score, average rating) are kept as integers in    *)
(* thousandths (Milli), divisions truncated.                               *)
(***************************************************************************)
EXTENDS Integers, Sequences, FiniteSets, Bags, TLC

VARIABLES
    listings,       \* marketplace_listings: listing id -> row
    couponCodes,    \* marketplace_coupon_codes: listing id -> stored value or NULL
    txs,            \* marketplace_transactions: sequence of rows, id = index
    grants,         \* marketplace_coupon_access: set of rows, unique on (listing_id, user_id)
    trust,          \* marketplace_trust_scores: user -> row or NULL
    reviews,        \* marketplace_reviews: sequence of rows, id = index
    notifications,  \* marketplace_notifications: bag of rows
    rateLimits,     \* marketplace_rate_limits: <<user, action>> -> row or NULL
    now,            \* the clock (Utc::now), in minutes
    pc,             \* per request slot: the statement the request executes next
    loc,            \* per request slot: the request's arguments, locals and result
    opCount,        \* number of requests started so far
    winAllowed,     \* history: <<user, action>> -> calls allowed in the stored window
    encryptionKeyEnv, \* the environment variable ENCRYPTION_KEY: a key or unset
    unswept,        \* history: marketplace_rate_limits had no sweep deleted a row
    fingerprints,   \* marketplace_fingerprints: set of rows
    cache           \* MarketplaceCache: the Redis client and the cached listings

vars == <<listings, couponCodes, txs, grants, trust, reviews, notifications,
          rateLimits, now, pc, loc, opCount, winAllowed, encryptionKeyEnv, unswept, fingerprints, cache>>

store == <<listings, couponCodes, txs, grants, trust, reviews, notifications, rateLimits>>

----------------------------------------------------------------------------
\* Bounds of the model

NumProcs == 2
MaxOps == 4
MaxTx == 2
MaxReviews == 2
MaxNow == 90
TickStep == 30

Procs == 1..NumProcs

NULL == "null"

\* Option<T>: None, Some(x)
None == <<>>
Some(x) == <<x>>
IsSome(o) == o # <<>>
Unwrap(o) == o[1]

Users == {"s1", "b1", "b2"}
Seller == "s1"
ListingIds == {"L1"}
\* a listing id no row has
RequestListingIds == ListingIds \cup {"L0"}
\* CreateReviewRequest::rating is an i32 the handler stores as it comes: a low
\* and a high rating of the 1..5 scale, and a value outside of it
Ratings == {1, 5, -20}
Secret == "SAVE20"
\* selling prices and titles of a listing
Prices == {20, 35}
Titles == {"t0", "t1"}

----------------------------------------------------------------------------
\* Secret vault

\* the key ENCRYPTION_KEY configures
EncryptionKey == "K0"

\* the keys EncryptionService::generate_key can return
GeneratedKeys == {"G1", "G2"}

\* std::env::var("ENCRYPTION_KEY").unwrap_or_else(|_| generate_key()): the
\* configured key, or any generated key when the variable is not set
EncryptionKeys ==
    IF IsSome(encryptionKeyEnv) THEN {Unwrap(encryptionKeyEnv)} ELSE GeneratedKeys

\* encrypt_string: the ciphertext and its nonce
Encrypt(plain, key) == [code |-> [k |-> key, p |-> plain], nonce |-> "n"]

\* decrypt_string: the plaintext under the key that encrypted it, else an error
Decrypt(code, nonce, key) == IF code.k = key THEN Some(code.p) ELSE None

\* format!("{}:{}", encrypted_code, nonce): two parts around the delimiter
Combined(enc) == [parts |-> 2, code |-> enc.code, nonce |-> enc.nonce]

----------------------------------------------------------------------------
\* MarketplaceCache (cache.rs): the listings cached in Redis

\* the cache after MarketplaceCache::new, with or without a Redis client
ColdCache(client) == [client |-> client, up |-> TRUE, listing |-> [l \in ListingIds |-> None]]

\* cache_listing: SET listing:<id> with a time to live; an error when the
\* connection fails, nothing without a client
CacheListing ==
    /\ cache.client
    /\ cache.up
    /\ \E l \in ListingIds, status \in {"active", "sold"} :
          cache' = [cache EXCEPT !.listing[l] = Some([status |-> status])]
    /\ UNCHANGED <<store, now, pc, loc, opCount, winAllowed, encryptionKeyEnv, unswept,
                   fingerprints>>

\* invalidate_listing: DEL listing:<id>, and the expiry of the key
InvalidateListing ==
    /\ cache.client
    /\ cache.up
    /\ \E l \in ListingIds : cache' = [cache EXCEPT !.listing[l] = None]
    /\ UNCHANGED <<store, now, pc, loc, opCount, winAllowed, encryptionKeyEnv, unswept,
                   fingerprints>>

\* Redis becomes unreachable (get_async_connection fails) or reachable again
RedisOutage ==
    /\ cache.client
    /\ cache' = [cache EXCEPT !.up = ~cache.up]
    /\ UNCHANGED <<store, now, pc, loc, opCount, winAllowed, encryptionKeyEnv, unswept,
                   fingerprints>>

----------------------------------------------------------------------------
\* Reputation engine

Milli == 1000

Min(a, b) == IF a < b THEN a ELSE b

RECURSIVE SumRatings(_, _, _)
SumRatings(rs, user, i) ==
    IF i = 0 THEN 0
    ELSE SumRatings(rs, user, i - 1)
         + (IF rs[i].reviewed_user_id = user THEN rs[i].rating ELSE 0)

ReviewCount(rs, user) == Cardinality({i \in 1..Len(rs) : rs[i].reviewed_user_id = user})

\* AVG(r.rating): NULL over no rows
AvgRating(rs, user) ==
    IF ReviewCount(rs, user) = 0 THEN None
    ELSE Some((SumRatings(rs, user, Len(rs)) * Milli) \div ReviewCount(rs, user))

DefaultTrust ==
    [total_transactions |-> 0, successful_transactions |-> 0, average_rating |-> 0,
     total_reviews |-> 0, verified_seller |-> FALSE, trust_score |-> 50 * Milli]

\* the score of mod.rs 635-658, in thousandths
TrustScoreOf(total, successful, verified, review_count, avg_rating) ==
    LET base == 50 * Milli
        s1 == IF total > 0 THEN base + ((successful * 30 * Milli) \div total) ELSE base
        s2 == IF IsSome(avg_rating) THEN s1 + ((Unwrap(avg_rating) * 30) \div 5) ELSE s1
        s3 == s2 + Min(review_count, 10) * Milli
        s4 == IF verified THEN s3 + 10 * Milli ELSE s3
    IN  Min(s4, 100 * Milli)

----------------------------------------------------------------------------
\* Request slots

\* what a request returns: Ok / the AppError variant, its message, the row id or
\* secret returned, and for the rate limiter the fields of RateLimitResult
NoResult ==
    [kind |-> "none", msg |-> "", val |-> 0, data |-> "",
     allowed |-> FALSE, remaining |-> 0, reset_at |-> 0, retry_after |-> 0]

IdleLoc ==
    [op |-> "none", caller |-> NULL, listing_id |-> NULL, tx_id |-> 0, rating |-> 0,
     seller_id |-> NULL, price |-> 0, title |-> NULL, target |-> NULL, is_buyer_review |-> FALSE,
     stats |-> None, action |-> NULL, threshold |-> 0, row |-> None,
     code |-> NULL, category |-> NULL, brand |-> None,
     listing_type |-> NULL, coupon_code |-> None, original_value |-> None,
     chars |-> <<>>,
     result |-> NoResult]

\* a request takes the lowest slot that has no request in flight
Free(p) ==
    /\ pc[p] \in {"idle", "done"}
    /\ \A q \in Procs : q < p => pc[q] \notin {"idle", "done"}
    /\ opCount < MaxOps

Begin(p, first, l) ==
    /\ pc' = [pc EXCEPT ![p] = first]
    /\ loc' = [loc EXCEPT ![p] = l]
    /\ opCount' = opCount + 1

Goto(p, next) == pc' = [pc EXCEPT ![p] = next]

\* the request in slot p returns: the slot shows the response `shown` until the
\* next request returns or the slot is taken again
Respond(p, shown) ==
    /\ pc' = [q \in Procs |-> IF q = p THEN "done"
                              ELSE IF pc[q] = "done" THEN "idle" ELSE pc[q]]
    /\ loc' = [q \in Procs |-> IF q = p THEN shown
                               ELSE IF pc[q] = "done" THEN IdleLoc ELSE loc[q]]

\* the arguments and locals of the request are dropped, its result stays
Return(p, res) == Respond(p, [IdleLoc EXCEPT !.op = loc[p].op, !.result = res])

FinishWith(p, kind, msg, val, data) ==
    Return(p, [NoResult EXCEPT !.kind = kind, !.msg = msg, !.val = val, !.data = data])

Finish(p, kind, msg, val) == FinishWith(p, kind, msg, val, "")

\* the statements of the store a request can be about to execute
StorePcs ==
    {"ct_select", "ct_insert", "ct_update", "ct_notify",
     "cp_select", "cp_update", "cp_grant", "cp_counts", "cp_notify",
     "rc_select", "rc_update",
     "rv_select", "rv_exists", "rv_insert", "rv_notify",
     "cl_insert", "cl_coupon", "cl_trust", "sf_insert",
     "gp_user", "gp_ensure", "gp_trust", "gp_stats",
     "gc_access", "gc_fetch",
     "ul_select", "ul_update",
     "dd_select",
     "rl_cleanup", "rl_select", "rl_update", "rl_insert", "co_select"}

\* `.await?` on a failed statement: the request ends with the error and
\* nothing of the failed statement is stored
StoreFails(p) ==
    /\ pc[p] \in StorePcs
    /\ Finish(p, "InternalError", "store", 0)
    /\ UNCHANGED <<store, now, opCount, winAllowed, encryptionKeyEnv, unswept, fingerprints, cache>>

\* a notification without its addressee
NotificationUnaddressed(user, type, listing, tx) ==
    [user_id |-> NULL, notification_type |-> type,
     related_listing_id |-> listing, related_transaction_id |-> tx]

Notification(user, type, listing, tx) ==
    [user_id |-> user, notification_type |-> type,
     related_listing_id |-> listing, related_transaction_id |-> tx]

----------------------------------------------------------------------------
\* MarketplaceService::create_transaction (purchase)

\* the listing or a cached copy of a listing is active
ListingAvailableInCache(status) ==
    \/ status = "active"
    \/ \E l \in ListingIds : cache.listing[l] = Some([status |-> "active"])

ListingAvailable(status) == status = "active"

StartPurchase(p) ==
    /\ Free(p)
    /\ \E u \in Users, l \in RequestListingIds :
          Begin(p, "ct_select", [IdleLoc EXCEPT !.op = "purchase", !.caller = u, !.listing_id = l])
    /\ UNCHANGED <<store, now, winAllowed, encryptionKeyEnv, unswept, fingerprints, cache>>

PurchaseSelect(p) ==
    /\ pc[p] = "ct_select"
    /\ LET l == loc[p].listing_id IN
         IF l \notin DOMAIN listings
           THEN Finish(p, "NotFound", "Listing not found", 0)
         ELSE IF ~ListingAvailable(listings[l].status)
           THEN Finish(p, "NotFound", "Listing is not available for purchase", 0)
         ELSE IF listings[l].seller_id = loc[p].caller
           THEN Finish(p, "NotFound", "You cannot purchase your own listing", 0)
         ELSE /\ Goto(p, "ct_insert")
              /\ loc' = [loc EXCEPT ![p].seller_id = listings[l].seller_id,
                                    ![p].price = listings[l].selling_price]
    /\ UNCHANGED <<store, now, opCount, winAllowed, encryptionKeyEnv, unswept, fingerprints, cache>>

\* the INSERT with the amount column left to its default
NewTransactionDefaultAmount(listing, buyer, seller, selling_price) ==
    [listing_id |-> listing, buyer_id |-> buyer, seller_id |-> seller, amount |-> 0,
     status |-> "pending", completed_at |-> None]

\* INSERT INTO marketplace_transactions (.., amount, .., status) VALUES (.., $5, .., 'pending')
NewTransaction(listing, buyer, seller, selling_price) ==
    [listing_id |-> listing, buyer_id |-> buyer, seller_id |-> seller, amount |-> selling_price,
     status |-> "pending", completed_at |-> None]

PurchaseInsert(p) ==
    /\ pc[p] = "ct_insert"
    /\ Len(txs) < MaxTx
    /\ txs' = Append(txs, NewTransaction(loc[p].listing_id, loc[p].caller,
                                         loc[p].seller_id, loc[p].price))
    /\ loc' = [loc EXCEPT ![p].tx_id = Len(txs) + 1]
    /\ Goto(p, "ct_update")
    /\ UNCHANGED <<listings, couponCodes, grants, trust, reviews, notifications,
                   rateLimits, now, opCount, winAllowed, encryptionKeyEnv, unswept, fingerprints, cache>>

PurchaseUpdateListing(p) ==
    /\ pc[p] = "ct_update"
    /\ listings' = [listings EXCEPT ![loc[p].listing_id].status = "sold"]
    /\ Goto(p, "ct_notify")
    /\ UNCHANGED <<couponCodes, txs, grants, trust, reviews, notifications,
                   rateLimits, now, loc, opCount, winAllowed, encryptionKeyEnv, unswept, fingerprints, cache>>

PurchaseNotify(p) ==
    /\ pc[p] = "ct_notify"
    /\ notifications' = notifications (+)
           SetToBag({Notification(loc[p].seller_id, "new_sale", loc[p].listing_id, loc[p].tx_id)})
    /\ Finish(p, "Ok", "", loc[p].tx_id)
    /\ UNCHANGED <<listings, couponCodes, txs, grants, trust, reviews,
                   rateLimits, now, opCount, winAllowed, encryptionKeyEnv, unswept, fingerprints, cache>>

----------------------------------------------------------------------------
\* MarketplaceService::update_listing: the ownership check, then the UPDATE
\* of the title

StartUpdateListing(p) ==
    /\ Free(p)
    /\ \E u \in Users, l \in RequestListingIds, title \in Titles :
          Begin(p, "ul_select", [IdleLoc EXCEPT !.op = "update_listing", !.caller = u,
                                                !.listing_id = l, !.title = title])
    /\ UNCHANGED <<store, now, winAllowed, encryptionKeyEnv, unswept, fingerprints, cache>>

UpdateListingSelect(p) ==
    /\ pc[p] = "ul_select"
    /\ LET l == loc[p].listing_id IN
         IF l \notin DOMAIN listings
           THEN Finish(p, "NotFound", "Listing not found", 0)
         ELSE IF listings[l].seller_id # loc[p].caller
           THEN Finish(p, "NotFound", "You can only update your own listings", 0)
         ELSE Goto(p, "ul_update") /\ UNCHANGED loc
    /\ UNCHANGED <<store, now, opCount, winAllowed, encryptionKeyEnv, unswept, fingerprints, cache>>

UpdateListingUpdate(p) ==
    /\ pc[p] = "ul_update"
    /\ listings' = [listings EXCEPT ![loc[p].listing_id].title = loc[p].title]
    /\ Finish(p, "Ok", "", 0)
    /\ UNCHANGED <<couponCodes, txs, grants, trust, reviews, notifications,
                   rateLimits, now, opCount, winAllowed, encryptionKeyEnv, unswept, fingerprints, cache>>

----------------------------------------------------------------------------
\* create_listing: the route's validation, then MarketplaceService::create_listing

ListingTypes == {"discount_code", "gift_card"}
CouponCodes == {"A", "x y"}
OriginalValues == {25, 40}

\* (selling - original) / selling * 100
DiscountPercentageOfPrice(original, selling_price) ==
    (((selling_price - original) * Milli) \div selling_price) * 100

\* (diff / original) * hundred, in thousandths of a percent
DiscountPercentage(original, selling_price) ==
    (((original - selling_price) * Milli) \div original) * 100

\* Uuid::new_v4(): an id no listing has
NewListingId == CHOOSE l \in ListingIds : l \notin DOMAIN listings

\* the listing type with and without a coupon code, where a discount code
\* listing without one is refused by the route
StartCreateListing(p) ==
    /\ Free(p)
    /\ ListingIds \ DOMAIN listings # {}
    /\ \A q \in Procs : pc[q] \notin {"cl_insert"}
    /\ \E listing_type \in ListingTypes, price \in Prices,
          coupon_code \in {None} \cup {Some(c) : c \in CouponCodes},
          original_value \in {None} \cup {Some(v) : v \in OriginalValues} :
          LET request == [IdleLoc EXCEPT !.op = "create_listing", !.caller = Seller,
                                         !.listing_type = listing_type, !.title = "t0",
                                         !.category = "food", !.brand = None,
                                         !.price = price, !.original_value = original_value,
                                         !.coupon_code = coupon_code]
          IN  IF listing_type = "discount_code" /\ ~IsSome(coupon_code)
                THEN /\ opCount' = opCount + 1
                     /\ Respond(p, [IdleLoc EXCEPT !.op = "create_listing",
                            !.result = [NoResult EXCEPT !.kind = "BadRequest",
                               !.msg = "Discount code listings must include a coupon code"]])
                ELSE Begin(p, "cl_insert", request)
    /\ UNCHANGED <<store, now, winAllowed, encryptionKeyEnv, unswept, fingerprints, cache>>

\* INSERT INTO marketplace_listings ... RETURNING *
CreateListingInsert(p) ==
    /\ pc[p] = "cl_insert"
    /\ LET r == loc[p]
           listing_id == NewListingId
           discount_percentage ==
               IF IsSome(r.original_value)
                 THEN Some(DiscountPercentage(Unwrap(r.original_value), r.price))
                 ELSE None
       IN  /\ listings' = listing_id :>
                              [seller_id |-> r.caller, title |-> r.title,
                               selling_price |-> r.price, status |-> "active",
                               listing_type |-> r.listing_type, category |-> r.category,
                               brand_name |-> r.brand, original_value |-> r.original_value,
                               discount_percentage |-> discount_percentage,
                               created_at |-> now]
                          @@ listings
           /\ loc' = [loc EXCEPT ![p].listing_id = listing_id]
           /\ Goto(p, IF r.listing_type = "discount_code" /\ IsSome(r.coupon_code)
                        THEN "cl_coupon" ELSE "cl_trust")
    /\ UNCHANGED <<couponCodes, txs, grants, trust, reviews, notifications,
                   rateLimits, now, opCount, winAllowed, encryptionKeyEnv, unswept, fingerprints, cache>>

\* INSERT INTO marketplace_coupon_codes: the code encrypted under the key of
\* the environment, or under a generated key
CreateListingCoupon(p) ==
    /\ pc[p] = "cl_coupon"
    /\ \E encryption_key \in EncryptionKeys :
          couponCodes' = [couponCodes EXCEPT ![loc[p].listing_id] =
              Some(Combined(Encrypt(Unwrap(loc[p].coupon_code), encryption_key)))]
    /\ Goto(p, "cl_trust")
    /\ UNCHANGED <<listings, txs, grants, trust, reviews, notifications,
                   rateLimits, now, loc, opCount, winAllowed, encryptionKeyEnv, unswept, fingerprints, cache>>

\* an INSERT that overwrites the row of the user
EnsureTrustScoreReset(user_id) == [trust EXCEPT ![user_id] = Some(DefaultTrust)]

\* INSERT INTO marketplace_trust_scores ... ON CONFLICT (user_id) DO NOTHING
EnsureTrustScore(user_id) ==
    IF IsSome(trust[user_id]) THEN trust
    ELSE [trust EXCEPT ![user_id] = Some(DefaultTrust)]

CreateListingTrust(p) ==
    /\ pc[p] = "cl_trust"
    /\ trust' = EnsureTrustScore(loc[p].caller)
    /\ FinishWith(p, "Ok", "Created", 0, loc[p].listing_id)
    /\ UNCHANGED <<listings, couponCodes, txs, grants, reviews, notifications,
                   rateLimits, now, opCount, winAllowed, encryptionKeyEnv, unswept, fingerprints, cache>>

----------------------------------------------------------------------------
\* get_user_profile (mod.rs 725-770)

\* the rows of the users table, and an id that has none
RegisteredUsers == Users
ProfileUserIds == Users \cup {"u0"}

StartGetUserProfile(p) ==
    /\ Free(p)
    /\ \E user_id \in ProfileUserIds :
          Begin(p, "gp_user", [IdleLoc EXCEPT !.op = "get_user_profile", !.target = user_id])
    /\ UNCHANGED <<store, now, winAllowed, encryptionKeyEnv, unswept, fingerprints, cache>>

\* SELECT username, email, created_at FROM users WHERE auth0_id = $1
GetUserProfileUser(p) ==
    /\ pc[p] = "gp_user"
    /\ IF loc[p].target \notin RegisteredUsers
         THEN Finish(p, "NotFound", "User not found", 0)
         ELSE Goto(p, "gp_ensure") /\ UNCHANGED loc
    /\ UNCHANGED <<store, now, opCount, winAllowed, encryptionKeyEnv, unswept, fingerprints, cache>>

\* self.ensure_trust_score(user_id)
GetUserProfileEnsure(p) ==
    /\ pc[p] = "gp_ensure"
    /\ trust' = EnsureTrustScore(loc[p].target)
    /\ Goto(p, "gp_trust")
    /\ UNCHANGED <<listings, couponCodes, txs, grants, reviews, notifications,
                   rateLimits, now, loc, opCount, winAllowed, encryptionKeyEnv, unswept, fingerprints, cache>>

\* SELECT * FROM marketplace_trust_scores WHERE user_id = $1 (fetch_one)
GetUserProfileTrust(p) ==
    /\ pc[p] = "gp_trust"
    /\ IF IsSome(trust[loc[p].target])
         THEN /\ loc' = [loc EXCEPT ![p].row = trust[loc[p].target]]
              /\ Goto(p, "gp_stats")
         ELSE Finish(p, "InternalError", "store", 0)
    /\ UNCHANGED <<store, now, opCount, winAllowed, encryptionKeyEnv, unswept, fingerprints, cache>>

\* SELECT COUNT(*) ... FROM marketplace_listings WHERE seller_id = $1; the
\* profile returned carries the trust score read and the number of listings
GetUserProfileStats(p) ==
    /\ pc[p] = "gp_stats"
    /\ LET total_listings ==
               Cardinality({l \in DOMAIN listings : listings[l].seller_id = loc[p].target})
       IN  Return(p, [NoResult EXCEPT !.kind = "Ok", !.val = Unwrap(loc[p].row).trust_score,
                                     !.data = loc[p].target, !.remaining = total_listings])
    /\ UNCHANGED <<store, now, opCount, winAllowed, encryptionKeyEnv, unswept, fingerprints, cache>>

----------------------------------------------------------------------------
\* The payment provider confirms the hold: Pending -> Escrow

EscrowHold ==
    /\ \E t \in 1..Len(txs) :
          /\ txs[t].status = "pending"
          /\ txs' = [txs EXCEPT ![t].status = "escrow"]
    /\ UNCHANGED <<listings, couponCodes, grants, trust, reviews, notifications,
                   rateLimits, now, pc, loc, opCount, winAllowed, encryptionKeyEnv, unswept, fingerprints, cache>>

----------------------------------------------------------------------------
\* MarketplaceService::recalculate_trust_score, as called by the completion
\* and by the review: a SELECT of the aggregates, then an UPDATE of the row

AfterRecalc(p) == IF loc[p].op = "complete" THEN "cp_notify" ELSE "rv_notify"

\* the row of the SELECT: the counts and the flag of the trust score row, the
\* count and the average of the user's reviews
StatsOf(row, rs, u) ==
    [total_transactions |-> row.total_transactions,
     successful_transactions |-> row.successful_transactions,
     verified_seller |-> row.verified_seller,
     review_count |-> ReviewCount(rs, u),
     avg_rating |-> AvgRating(rs, u)]

\* the UPDATE adding the review count to the stored one
RecalculatedAdding(row, st) ==
    [row EXCEPT
        !.trust_score = TrustScoreOf(st.total_transactions, st.successful_transactions,
                                     st.verified_seller, st.review_count, st.avg_rating),
        !.average_rating = IF IsSome(st.avg_rating) THEN Unwrap(st.avg_rating) ELSE 0,
        !.total_reviews = @ + st.review_count]

\* the row after the UPDATE: trust_score, average_rating, total_reviews
Recalculated(row, st) ==
    [row EXCEPT
        !.trust_score = TrustScoreOf(st.total_transactions, st.successful_transactions,
                                     st.verified_seller, st.review_count, st.avg_rating),
        !.average_rating = IF IsSome(st.avg_rating) THEN Unwrap(st.avg_rating) ELSE 0,
        !.total_reviews = st.review_count]

RecalcSelect(p) ==
    /\ pc[p] = "rc_select"
    /\ LET u == loc[p].target IN
         IF IsSome(trust[u])
           THEN /\ loc' = [loc EXCEPT ![p].stats = Some(StatsOf(Unwrap(trust[u]), reviews, u))]
                /\ Goto(p, "rc_update")
           ELSE /\ Goto(p, AfterRecalc(p))
                /\ UNCHANGED loc
    /\ UNCHANGED <<store, now, opCount, winAllowed, encryptionKeyEnv, unswept, fingerprints, cache>>

RecalcUpdate(p) ==
    /\ pc[p] = "rc_update"
    /\ LET u == loc[p].target
           st == Unwrap(loc[p].stats)
       IN  trust' = [trust EXCEPT ![u] = Some(Recalculated(Unwrap(trust[u]), st))]
    /\ Goto(p, AfterRecalc(p))
    /\ loc' = [loc EXCEPT ![p].stats = None]
    /\ UNCHANGED <<listings, couponCodes, txs, grants, reviews, notifications,
                   rateLimits, now, opCount, winAllowed, encryptionKeyEnv, unswept, fingerprints, cache>>

----------------------------------------------------------------------------
\* MarketplaceService::complete_transaction

\* the buyer check left out
IsBuyerAnyCaller(buyer_id, caller) == TRUE

\* transaction.buyer_id != auth_user: only the buyer completes
IsBuyer(buyer_id, caller) == buyer_id = caller

\* the status check left out
InEscrowAnyStatus(status) == TRUE

\* transaction.status != "escrow": only from escrow
InEscrow(status) == status = "escrow"

StartComplete(p) ==
    /\ Free(p)
    /\ \E u \in Users, t \in 1..MaxTx :
          Begin(p, "cp_select", [IdleLoc EXCEPT !.op = "complete", !.caller = u, !.tx_id = t])
    /\ UNCHANGED <<store, now, winAllowed, encryptionKeyEnv, unswept, fingerprints, cache>>

CompleteSelect(p) ==
    /\ pc[p] = "cp_select"
    /\ LET t == loc[p].tx_id IN
         IF t \notin 1..Len(txs)
           THEN Finish(p, "NotFound", "Transaction not found", 0)
         ELSE IF ~IsBuyer(txs[t].buyer_id, loc[p].caller)
           THEN Finish(p, "NotFound", "Only the buyer can complete this transaction", 0)
         ELSE IF ~InEscrow(txs[t].status)
           THEN Finish(p, "NotFound", "Transaction is not in escrow status", 0)
         ELSE /\ Goto(p, "cp_update")
              /\ loc' = [loc EXCEPT ![p].listing_id = txs[t].listing_id,
                                    ![p].seller_id = txs[t].seller_id]
    /\ UNCHANGED <<store, now, opCount, winAllowed, encryptionKeyEnv, unswept, fingerprints, cache>>

CompleteUpdate(p) ==
    /\ pc[p] = "cp_update"
    /\ txs' = [txs EXCEPT ![loc[p].tx_id].status = "completed",
                          ![loc[p].tx_id].completed_at = Some(now)]
    /\ Goto(p, "cp_grant")
    /\ UNCHANGED <<listings, couponCodes, grants, trust, reviews, notifications,
                   rateLimits, now, loc, opCount, winAllowed, encryptionKeyEnv, unswept, fingerprints, cache>>

\* INSERT ... ON CONFLICT (listing_id, user_id) DO NOTHING
InsertGrant(gs, listing, user, tx) ==
    IF \E g \in gs : g.listing_id = listing /\ g.user_id = user
      THEN gs
      ELSE gs \cup {[listing_id |-> listing, user_id |-> user, transaction_id |-> tx]}

CompleteGrant(p) ==
    /\ pc[p] = "cp_grant"
    /\ grants' = InsertGrant(grants, loc[p].listing_id, loc[p].caller, loc[p].tx_id)
    /\ Goto(p, "cp_counts")
    /\ UNCHANGED <<listings, couponCodes, txs, trust, reviews, notifications,
                   rateLimits, now, loc, opCount, winAllowed, encryptionKeyEnv, unswept, fingerprints, cache>>

\* update_trust_score_after_transaction(seller, true): the UPDATE of the counts
CompleteCounts(p) ==
    /\ pc[p] = "cp_counts"
    /\ LET u == loc[p].seller_id IN
         trust' = IF IsSome(trust[u])
                    THEN [trust EXCEPT ![u] = Some([Unwrap(trust[u]) EXCEPT
                             !.total_transactions = @ + 1,
                             !.successful_transactions = @ + 1])]
                    ELSE trust
    /\ loc' = [loc EXCEPT ![p].target = loc[p].seller_id]
    /\ Goto(p, "rc_select")
    /\ UNCHANGED <<listings, couponCodes, txs, grants, reviews, notifications,
                   rateLimits, now, opCount, winAllowed, encryptionKeyEnv, unswept, fingerprints, cache>>

CompleteNotify(p) ==
    /\ pc[p] = "cp_notify"
    /\ notifications' = notifications (+)
           SetToBag({Notification(loc[p].seller_id, "transaction_completed",
                                  loc[p].listing_id, loc[p].tx_id)})
    /\ Finish(p, "Ok", "", loc[p].tx_id)
    /\ UNCHANGED <<listings, couponCodes, txs, grants, trust, reviews,
                   rateLimits, now, opCount, winAllowed, encryptionKeyEnv, unswept, fingerprints, cache>>

----------------------------------------------------------------------------
\* routes.rs cancel_transaction / dispute_transaction: the handlers answer
\* 200 OK / 202 Accepted and execute no statement

CancelTransaction(p) ==
    /\ Free(p)
    /\ \E u \in Users, t \in 1..MaxTx :
          Respond(p, [IdleLoc EXCEPT !.op = "cancel", !.caller = u, !.tx_id = t,
                        !.result = [NoResult EXCEPT !.kind = "Ok", !.msg = "200 OK"]])
    /\ opCount' = opCount + 1
    /\ UNCHANGED <<store, now, winAllowed, encryptionKeyEnv, unswept, fingerprints, cache>>

DisputeTransaction(p) ==
    /\ Free(p)
    /\ \E u \in Users, t \in 1..MaxTx :
          Respond(p, [IdleLoc EXCEPT !.op = "dispute", !.caller = u, !.tx_id = t,
                        !.result = [NoResult EXCEPT !.kind = "Ok", !.msg = "202 Accepted"]])
    /\ opCount' = opCount + 1
    /\ UNCHANGED <<store, now, winAllowed, encryptionKeyEnv, unswept, fingerprints, cache>>

----------------------------------------------------------------------------
\* MarketplaceService::get_coupon_code (reveal)

\* the access query with the user_id condition of its second branch left out
HasAccessAnyGrant(l, u) ==
    \/ l \in DOMAIN listings /\ listings[l].seller_id = u
    \/ \E g \in grants : g.listing_id = l

\* SELECT 1 FROM listings WHERE id, seller_id UNION SELECT 1 FROM coupon_access
HasAccess(l, u) ==
    \/ l \in DOMAIN listings /\ listings[l].seller_id = u
    \/ \E g \in grants : g.listing_id = l /\ g.user_id = u

StartReveal(p) ==
    /\ Free(p)
    /\ \E u \in Users, l \in ListingIds :
          Begin(p, "gc_access", [IdleLoc EXCEPT !.op = "reveal", !.caller = u, !.listing_id = l])
    /\ UNCHANGED <<store, now, winAllowed, encryptionKeyEnv, unswept, fingerprints, cache>>

RevealAccess(p) ==
    /\ pc[p] = "gc_access"
    /\ IF HasAccess(loc[p].listing_id, loc[p].caller)
         THEN Goto(p, "gc_fetch") /\ UNCHANGED loc
         ELSE Finish(p, "Ok", "None", 0)
    /\ UNCHANGED <<store, now, opCount, winAllowed, encryptionKeyEnv, unswept, fingerprints, cache>>

RevealFetch(p) ==
    /\ pc[p] = "gc_fetch"
    /\ LET stored == couponCodes[loc[p].listing_id] IN
         IF ~IsSome(stored)
           THEN Finish(p, "Ok", "None", 0)
         ELSE IF Unwrap(stored).parts # 2
           THEN Finish(p, "InternalError", "Invalid encrypted data format", 0)
         ELSE \E encryption_key \in EncryptionKeys :
              LET plain == Decrypt(Unwrap(stored).code, Unwrap(stored).nonce, encryption_key) IN
              IF IsSome(plain)
                THEN FinishWith(p, "Ok", "Some", 0, Unwrap(plain))
                ELSE Finish(p, "InternalError", "decrypt", 0)
    /\ UNCHANGED <<store, now, opCount, winAllowed, encryptionKeyEnv, unswept, fingerprints, cache>>

----------------------------------------------------------------------------
\* MarketplaceService::create_review

StartReview(p) ==
    /\ Free(p)
    /\ \E u \in Users, t \in 1..MaxTx, r \in Ratings :
          Begin(p, "rv_select", [IdleLoc EXCEPT !.op = "review", !.caller = u,
                                                !.tx_id = t, !.rating = r])
    /\ UNCHANGED <<store, now, winAllowed, encryptionKeyEnv, unswept, fingerprints, cache>>

ReviewSelect(p) ==
    /\ pc[p] = "rv_select"
    /\ LET t == loc[p].tx_id IN
         IF t \notin 1..Len(txs)
           THEN Finish(p, "NotFound", "Transaction not found", 0)
         ELSE IF txs[t].status # "completed"
           THEN Finish(p, "NotFound", "Can only review completed transactions", 0)
         ELSE IF txs[t].buyer_id = loc[p].caller
           THEN /\ Goto(p, "rv_exists")
                /\ loc' = [loc EXCEPT ![p].target = txs[t].seller_id,
                                      ![p].is_buyer_review = TRUE]
         ELSE IF txs[t].seller_id = loc[p].caller
           THEN /\ Goto(p, "rv_exists")
                /\ loc' = [loc EXCEPT ![p].target = txs[t].buyer_id,
                                      ![p].is_buyer_review = FALSE]
         ELSE Finish(p, "NotFound", "You are not part of this transaction", 0)
    /\ UNCHANGED <<store, now, opCount, winAllowed, encryptionKeyEnv, unswept, fingerprints, cache>>

ReviewExists(p) ==
    /\ pc[p] = "rv_exists"
    /\ IF \E i \in 1..Len(reviews) :
             reviews[i].transaction_id = loc[p].tx_id /\ reviews[i].reviewer_id = loc[p].caller
         THEN Finish(p, "NotFound", "You have already reviewed this transaction", 0)
         ELSE Goto(p, "rv_insert") /\ UNCHANGED loc
    /\ UNCHANGED <<store, now, opCount, winAllowed, encryptionKeyEnv, unswept, fingerprints, cache>>

ReviewInsert(p) ==
    /\ pc[p] = "rv_insert"
    /\ Len(reviews) < MaxReviews
    /\ reviews' = Append(reviews,
           [transaction_id |-> loc[p].tx_id, reviewer_id |-> loc[p].caller,
            reviewed_user_id |-> loc[p].target, rating |-> loc[p].rating,
            is_buyer_review |-> loc[p].is_buyer_review])
    /\ Goto(p, "rc_select")
    /\ UNCHANGED <<listings, couponCodes, txs, grants, trust, notifications,
                   rateLimits, now, loc, opCount, winAllowed, encryptionKeyEnv, unswept, fingerprints, cache>>

ReviewNotify(p) ==
    /\ pc[p] = "rv_notify"
    /\ notifications' = notifications (+)
           SetToBag({Notification(loc[p].target, "new_review", NULL, loc[p].tx_id)})
    /\ Finish(p, "Ok", "", Len(reviews))
    /\ UNCHANGED <<listings, couponCodes, txs, grants, trust, reviews,
                   rateLimits, now, opCount, winAllowed, encryptionKeyEnv, unswept, fingerprints, cache>>

----------------------------------------------------------------------------
\* Rate limiter (rate_limiter.rs)

MaxAttemptsCreateListing == 10
MaxAttemptsCreateTransaction == 50
MaxAttemptsCreateReview == 20
MaxAttemptsSendMessage == 100
WindowMinutes == 60

\* RateLimiter::new: the table of limits
Limits(action) ==
    CASE action = "create_listing" ->
           [max_attempts |-> MaxAttemptsCreateListing, window_minutes |-> WindowMinutes]
      [] action = "create_transaction" ->
           [max_attempts |-> MaxAttemptsCreateTransaction, window_minutes |-> WindowMinutes]
      [] action = "create_review" ->
           [max_attempts |-> MaxAttemptsCreateReview, window_minutes |-> WindowMinutes]
      [] action = "send_message" ->
           [max_attempts |-> MaxAttemptsSendMessage, window_minutes |-> WindowMinutes]

\* the users and actions whose counters the model exercises
RateUsers == {"b1"}
RateActions == {"create_listing"}
RateKeys == RateUsers \X RateActions

Max(a, b) == IF a > b THEN a ELSE b

KeyOf(p) == <<loc[p].caller, loc[p].action>>

\* the counter's window is live for a request that computed `threshold`
WindowLive(row, threshold) == row.window_start > threshold

\* the request computes window_start = now - window before its first statement
StartCheck(p) ==
    /\ pc[p] \in {"idle", "done"}
    /\ \A q \in Procs : q < p => pc[q] \notin {"idle", "done"}
    /\ \E u \in RateUsers, a \in RateActions :
          /\ pc' = [pc EXCEPT ![p] = "rl_cleanup"]
          /\ loc' = [loc EXCEPT ![p] =
                [IdleLoc EXCEPT !.op = "check_and_increment", !.caller = u, !.action = a,
                                !.threshold = now - Limits(a).window_minutes]]
    /\ UNCHANGED <<store, now, opCount, winAllowed, encryptionKeyEnv, unswept, fingerprints, cache>>

\* cleanup_old_rate_limits(): a function of the database that deletes counters
\* whose window has expired; which of the expired counters it deletes is open
RateCleanup(p) ==
    /\ pc[p] = "rl_cleanup"
    /\ \E gone \in SUBSET {k \in RateKeys :
                   /\ IsSome(rateLimits[k])
                   /\ Unwrap(rateLimits[k]).window_start + Limits(k[2]).window_minutes < now} :
          /\ rateLimits' = [k \in RateKeys |-> IF k \in gone THEN None ELSE rateLimits[k]]
          /\ winAllowed' = [k \in RateKeys |-> IF k \in gone THEN 0 ELSE winAllowed[k]]
    /\ Goto(p, "rl_select")
    /\ UNCHANGED <<listings, couponCodes, txs, grants, trust, reviews, notifications,
                   now, loc, opCount, encryptionKeyEnv, unswept, fingerprints, cache>>

\* the seconds to the reset time, negative after it
RetryAfterUnfloored(reset_time, t) == (reset_time - t) * 60

\* the retry_after of a denial, in seconds
RetryAfter(reset_time, t) == Max((reset_time - t) * 60, 0)

OverLimit(count, max_attempts) == count >= max_attempts

RateSelect(p) ==
    /\ pc[p] = "rl_select"
    /\ LET cur == rateLimits[KeyOf(p)]
           limit == Limits(loc[p].action)
       IN  IF IsSome(cur) /\ WindowLive(Unwrap(cur), loc[p].threshold)
             THEN IF OverLimit(Unwrap(cur).count, limit.max_attempts)
                    THEN LET reset_time == Unwrap(cur).window_start + limit.window_minutes IN
                         Return(p, [NoResult EXCEPT !.kind = "Ok", !.allowed = FALSE,
                                       !.remaining = 0, !.reset_at = reset_time,
                                       !.retry_after = RetryAfter(reset_time, now)])
                    ELSE /\ Goto(p, "rl_update")
                         /\ loc' = [loc EXCEPT ![p].row = cur]
             ELSE /\ Goto(p, "rl_insert")
                  /\ UNCHANGED loc
    /\ UNCHANGED <<store, now, opCount, winAllowed, encryptionKeyEnv, unswept, fingerprints, cache>>

\* UPDATE ... SET count = new_count WHERE user_id AND action_type
RateUpdate(p) ==
    /\ pc[p] = "rl_update"
    /\ LET k == KeyOf(p)
           limit == Limits(loc[p].action)
           new_count == Unwrap(loc[p].row).count + 1
       IN  /\ rateLimits' = IF IsSome(rateLimits[k])
                              THEN [rateLimits EXCEPT ![k] =
                                       Some([Unwrap(rateLimits[k]) EXCEPT !.count = new_count])]
                              ELSE rateLimits
           /\ unswept' = IF IsSome(unswept[k])
                           THEN [unswept EXCEPT ![k] =
                                    Some([Unwrap(unswept[k]) EXCEPT !.count = new_count])]
                           ELSE unswept
           /\ winAllowed' = [winAllowed EXCEPT ![k] = @ + 1]
           /\ Return(p, [NoResult EXCEPT !.kind = "Ok", !.allowed = TRUE,
                            !.remaining = limit.max_attempts - new_count,
                            !.reset_at = Unwrap(loc[p].row).window_start + limit.window_minutes,
                            !.retry_after = 0])
    /\ UNCHANGED <<listings, couponCodes, txs, grants, trust, reviews, notifications,
                   now, opCount, encryptionKeyEnv, fingerprints, cache>>

\* INSERT ... ON CONFLICT (user_id, action_type) DO UPDATE SET count = 1, window_start = now
RateInsert(p) ==
    /\ pc[p] = "rl_insert"
    /\ LET k == KeyOf(p)
           limit == Limits(loc[p].action)
       IN  /\ rateLimits' = [rateLimits EXCEPT ![k] = Some([count |-> 1, window_start |-> now])]
           /\ unswept' = [unswept EXCEPT ![k] = Some([count |-> 1, window_start |-> now])]
           /\ winAllowed' = [winAllowed EXCEPT ![k] =
                  IF IsSome(rateLimits[k]) /\ Unwrap(rateLimits[k]).window_start = now
                    THEN @ + 1 ELSE 1]
           /\ Return(p, [NoResult EXCEPT !.kind = "Ok", !.allowed = TRUE,
                            !.remaining = limit.max_attempts - 1,
                            !.reset_at = now + limit.window_minutes,
                            !.retry_after = 0])
    /\ UNCHANGED <<listings, couponCodes, txs, grants, trust, reviews, notifications,
                   now, opCount, encryptionKeyEnv, fingerprints, cache>>

\* check_only (rate_limiter.rs 152-206): the same threshold and SELECT, no
\* sweep and no write
StartCheckOnly(p) ==
    /\ pc[p] \in {"idle", "done"}
    /\ \A q \in Procs : q < p => pc[q] \notin {"idle", "done"}
    /\ \E u \in RateUsers, a \in RateActions :
          /\ pc' = [pc EXCEPT ![p] = "co_select"]
          /\ loc' = [loc EXCEPT ![p] =
                [IdleLoc EXCEPT !.op = "check_only", !.caller = u, !.action = a,
                                !.threshold = now - Limits(a).window_minutes]]
    /\ UNCHANGED <<store, now, opCount, winAllowed, encryptionKeyEnv, unswept, fingerprints, cache>>

\* the attempts left once the attempt asked about is counted
CheckOnlyRemainingAfter(count, max_attempts) == Max(max_attempts - count - 1, 0)

\* (limit.max_attempts - count).max(0)
CheckOnlyRemaining(count, max_attempts) == Max(max_attempts - count, 0)

CheckOnlySelect(p) ==
    /\ pc[p] = "co_select"
    /\ LET cur == rateLimits[KeyOf(p)]
           limit == Limits(loc[p].action)
       IN  IF IsSome(cur) /\ WindowLive(Unwrap(cur), loc[p].threshold)
             THEN LET count == Unwrap(cur).count
                      reset_time == Unwrap(cur).window_start + limit.window_minutes
                      allowed == count < limit.max_attempts
                  IN  Return(p, [NoResult EXCEPT !.kind = "Ok", !.allowed = allowed,
                                    !.remaining = CheckOnlyRemaining(count, limit.max_attempts),
                                    !.reset_at = reset_time,
                                    !.retry_after = IF allowed THEN 0
                                                    ELSE RetryAfter(reset_time, now)])
             ELSE Return(p, [NoResult EXCEPT !.kind = "Ok", !.allowed = TRUE,
                                !.remaining = limit.max_attempts,
                                !.reset_at = now + limit.window_minutes,
                                !.retry_after = 0])
    /\ UNCHANGED <<store, now, opCount, winAllowed, encryptionKeyEnv, unswept, fingerprints, cache>>

\* time passes
Tick ==
    /\ now + TickStep <= MaxNow
    /\ now' = now + TickStep
    /\ UNCHANGED <<store, pc, loc, opCount, winAllowed, encryptionKeyEnv, unswept, fingerprints, cache>>

----------------------------------------------------------------------------
\* Duplicate detector (duplicate_detector.rs)

\* the characters of the texts the model uses as titles and coupon codes
CharsOf ==
    [s \in {"", " ", "a", "A", "a b", "a b c", "a b c d", "a b c d e", "x y"} |->
        CASE s = "" -> <<>>
          [] s = " " -> <<" ">>
          [] s = "a" -> <<"a">>
          [] s = "A" -> <<"A">>
          [] s = "a b" -> <<"a", " ", "b">>
          [] s = "a b c" -> <<"a", " ", "b", " ", "c">>
          [] s = "a b c d" -> <<"a", " ", "b", " ", "c", " ", "d">>
          [] s = "a b c d e" -> <<"a", " ", "b", " ", "c", " ", "d", " ", "e">>
          [] s = "x y" -> <<"x", " ", "y">>]

Texts == DOMAIN CharsOf

\* char::to_lowercase
ToLowercase(c) == IF c = "A" THEN "a" ELSE c

\* split_whitespace over the lowercased text, collected into a HashSet:
\* cur is the token being read, acc the tokens read so far
RECURSIVE CollectTokens(_, _, _, _)
CollectTokens(chars, i, cur, acc) ==
    IF i > Len(chars)
      THEN IF cur = <<>> THEN acc ELSE acc \cup {cur}
    ELSE IF chars[i] = " "
      THEN CollectTokens(chars, i + 1, <<>>, IF cur = <<>> THEN acc ELSE acc \cup {cur})
    ELSE CollectTokens(chars, i + 1, Append(cur, ToLowercase(chars[i])), acc)

TokensOf(s) == CollectTokens(CharsOf[s], 1, <<>>, {})

\* the shared tokens over the tokens of both texts counted with repetition
CalculateSimilarityOverSum(s1, s2) ==
    IF TokensOf(s1) = {} \/ TokensOf(s2) = {}
      THEN [num |-> 0, den |-> 1]
      ELSE [num |-> Cardinality(TokensOf(s1) \cap TokensOf(s2)),
            den |-> Cardinality(TokensOf(s1)) + Cardinality(TokensOf(s2))]

\* calculate_similarity: |intersection| / |union| of the token sets, as the
\* fraction num / den; 0.0 when either set is empty
CalculateSimilarity(s1, s2) ==
    IF TokensOf(s1) = {} \/ TokensOf(s2) = {}
      THEN [num |-> 0, den |-> 1]
      ELSE [num |-> Cardinality(TokensOf(s1) \cap TokensOf(s2)),
            den |-> Cardinality(TokensOf(s1) \cup TokensOf(s2))]

\* similarity > tenths / 10
Exceeds(sim, tenths) == sim.num * 10 > tenths * sim.den

\* LIMIT 100
MaxCandidates == 100

\* the rows of a SELECT without the seller_id condition
CandidatesAnySeller(category, brand, seller_id) ==
    {l \in DOMAIN listings :
        /\ listings[l].status = "active"
        /\ listings[l].category = category
        /\ (~IsSome(brand) \/ listings[l].brand_name = brand)}

\* the rows of the SELECT: active, same category, another seller, and the
\* brand if one is given
Candidates(category, brand, seller_id) ==
    {l \in DOMAIN listings :
        /\ listings[l].status = "active"
        /\ listings[l].category = category
        /\ listings[l].seller_id # seller_id
        /\ (~IsSome(brand) \/ listings[l].brand_name = brand)}

\* ORDER BY created_at DESC LIMIT 100
RECURSIVE MostRecentFirst(_)
MostRecentFirst(ls) ==
    IF ls = {} THEN <<>>
    ELSE LET first == CHOOSE l \in ls :
                        \A m \in ls : listings[m].created_at <= listings[l].created_at
         IN  <<first>> \o MostRecentFirst(ls \ {first})

Limit(rows, n) == IF Len(rows) > n THEN SubSeq(rows, 1, n) ELSE rows

\* the confidence of the loop's body, 0 for `continue`
ConfidenceOf(row, coupon_code, brand) ==
    LET title_similarity == CalculateSimilarity(row.title, coupon_code)
        brand_match == IsSome(brand) /\ row.brand_name = brand
    IN  IF brand_match /\ Exceeds(title_similarity, 7) THEN 85
        ELSE IF Exceeds(title_similarity, 8) THEN 75
        ELSE 0

\* find_similar_listings: the flagged rows in the order of the SELECT
FindSimilarListings(coupon_code, category, brand, seller_id) ==
    LET rows == Limit(MostRecentFirst(Candidates(category, brand, seller_id)), MaxCandidates)
        flagged == SelectSeq(rows, LAMBDA l : ConfidenceOf(listings[l], coupon_code, brand) > 0)
    IN  [i \in 1..Len(flagged) |->
            [listing_id |-> flagged[i],
             confidence |-> ConfidenceOf(listings[flagged[i]], coupon_code, brand)]]

Brands == {"acme", "zen"}
Categories == {"food", "tech"}
DetectorListingIds == {"L1", "L2"}

StartCheckDuplicate(p) ==
    /\ Free(p)
    /\ \E u \in {Seller}, code \in Texts, category \in Categories,
          brand \in {None} \cup {Some(b) : b \in Brands} :
          Begin(p, "dd_select", [IdleLoc EXCEPT !.op = "check_duplicate", !.caller = u,
                                                !.code = code, !.category = category,
                                                !.brand = brand])
    /\ UNCHANGED <<store, now, winAllowed, encryptionKeyEnv, unswept, fingerprints, cache>>

\* check_duplicate: the first of the similar matches, if any
CheckDuplicateSelect(p) ==
    /\ pc[p] = "dd_select"
    /\ LET similar_matches == FindSimilarListings(loc[p].code, loc[p].category,
                                                  loc[p].brand, loc[p].caller)
       IN  IF similar_matches = <<>>
             THEN Finish(p, "Ok", "None", 0)
             ELSE FinishWith(p, "Ok", "Some", similar_matches[1].confidence,
                             similar_matches[1].listing_id)
    /\ UNCHANGED <<store, now, opCount, winAllowed, encryptionKeyEnv, unswept, fingerprints, cache>>

\* generate_fingerprint and store_fingerprint; a code is the tuple of its
\* characters, a brand a letter in either case

FingerprintCodes ==
    {<<"a">>, <<"A">>, <<"a", "-">>, <<" ", "a">>, <<"a", "\t">>, <<"b">>}
FingerprintBrands == {"z", "Z", "y"}

\* char::to_uppercase and to_lowercase on the letters of the model
ToUppercase(c) ==
    CASE c = "a" -> "A" [] c = "b" -> "B" [] c = "z" -> "Z" [] c = "y" -> "Y" [] OTHER -> c

LowercaseOf(c) ==
    CASE c = "A" -> "a" [] c = "B" -> "b" [] c = "Z" -> "z" [] c = "Y" -> "y" [] OTHER -> c

\* code.to_uppercase().replace(" ", "").replace("-", "")
NormalizedCode(code) ==
    SelectSeq([i \in 1..Len(code) |-> ToUppercase(code[i])],
              LAMBDA c : c # " " /\ c # "-")

\* the digest of the bytes given to the hasher: equal for equal bytes,
\* different for different bytes
Sha256(bytes) == [sha256 |-> bytes]

GenerateFingerprint(code, category, brand) ==
    Sha256(NormalizedCode(code) \o <<category>>
           \o (IF IsSome(brand) THEN <<LowercaseOf(Unwrap(brand))>> ELSE <<>>))

\* Uuid::parse_str accepts the listing id
FingerprintListingIds == DetectorListingIds \cup {"not-a-uuid"}
ParsesAsUuid(listing_id) == listing_id \in DetectorListingIds

StartStoreFingerprint(p) ==
    /\ Free(p)
    /\ \E l \in FingerprintListingIds, code \in FingerprintCodes, category \in Categories,
          brand \in {None} \cup {Some(b) : b \in FingerprintBrands} :
          IF ParsesAsUuid(l)
            THEN Begin(p, "sf_insert", [IdleLoc EXCEPT !.op = "store_fingerprint",
                                           !.listing_id = l, !.chars = code,
                                           !.category = category, !.brand = brand])
            ELSE /\ opCount' = opCount + 1
                 /\ Respond(p, [IdleLoc EXCEPT !.op = "store_fingerprint",
                        !.result = [NoResult EXCEPT !.kind = "BadRequest",
                                       !.msg = "Invalid listing ID format"]])
    /\ UNCHANGED <<store, now, winAllowed, encryptionKeyEnv, unswept, fingerprints, cache>>

\* INSERT ... ON CONFLICT (listing_id) DO UPDATE SET fingerprint = $2
StoreFingerprintInsert(p) ==
    /\ pc[p] = "sf_insert"
    /\ fingerprints' =
          {r \in fingerprints : r.listing_id # loc[p].listing_id}
          \cup {[listing_id |-> loc[p].listing_id,
                 fingerprint |-> GenerateFingerprint(loc[p].chars, loc[p].category,
                                                     loc[p].brand)]}
    /\ Finish(p, "Ok", "", 0)
    /\ UNCHANGED <<store, now, opCount, winAllowed, encryptionKeyEnv, unswept, cache>>

----------------------------------------------------------------------------
\* Specifications

\* The store after create_listing by the seller: the listing is active, its
\* coupon code is stored (a discount code listing) or not (another listing
\* type), the seller has the trust score row ensure_trust_score inserts.
InitStore(selling_price) ==
    /\ listings = [l \in ListingIds |->
                      [seller_id |-> Seller, title |-> "t0", selling_price |-> selling_price,
                       status |-> "active"]]
    /\ couponCodes \in {[l \in ListingIds |-> Some(Combined(Encrypt(Secret, EncryptionKey)))],
                        [l \in ListingIds |-> None]}
    /\ txs = <<>>
    /\ grants = {}
    /\ trust = [u \in Users |-> IF u = Seller THEN Some(DefaultTrust) ELSE None]
    /\ reviews = <<>>
    /\ notifications = EmptyBag
    /\ rateLimits = [k \in RateKeys |-> None]
    /\ now = 0
    /\ pc = [p \in Procs |-> "idle"]
    /\ loc = [p \in Procs |-> IdleLoc]
    /\ opCount = 0
    /\ winAllowed = [k \in RateKeys |-> 0]
    /\ encryptionKeyEnv = Some(EncryptionKey)
    /\ unswept = rateLimits
    /\ fingerprints = {}
    /\ cache = ColdCache(TRUE)

Init == InitStore(20)

\* the same store with a cache that has a Redis client or none
InitCache ==
    /\ listings = [l \in ListingIds |->
                      [seller_id |-> Seller, title |-> "t0", selling_price |-> 20,
                       status |-> "active"]]
    /\ couponCodes = [l \in ListingIds |-> Some(Combined(Encrypt(Secret, EncryptionKey)))]
    /\ txs = <<>>
    /\ grants = {}
    /\ trust = [u \in Users |-> IF u = Seller THEN Some(DefaultTrust) ELSE None]
    /\ reviews = <<>>
    /\ notifications = EmptyBag
    /\ rateLimits = [k \in RateKeys |-> None]
    /\ now = 0
    /\ pc = [p \in Procs |-> "idle"]
    /\ loc = [p \in Procs |-> IdleLoc]
    /\ opCount = 0
    /\ winAllowed = [k \in RateKeys |-> 0]
    /\ encryptionKeyEnv = Some(EncryptionKey)
    /\ unswept = rateLimits
    /\ fingerprints = {}
    /\ cache \in {ColdCache(TRUE), ColdCache(FALSE)}

\* the listing is a discount code listing
InitDiscountCode == Init /\ \A l \in ListingIds : IsSome(couponCodes[l])

\* the store when b1 has used up the purchase quota of the current window:
\* the counter of (b1, create_transaction) stands at max_attempts
PurchaseRateKeys == {<<"b1", "create_transaction">>}

InitQuotaExhausted ==
    /\ listings = [l \in ListingIds |->
                      [seller_id |-> Seller, title |-> "t0", selling_price |-> 20,
                       status |-> "active"]]
    /\ couponCodes = [l \in ListingIds |-> Some(Combined(Encrypt(Secret, EncryptionKey)))]
    /\ txs = <<>>
    /\ grants = {}
    /\ trust = [u \in Users |-> IF u = Seller THEN Some(DefaultTrust) ELSE None]
    /\ reviews = <<>>
    /\ notifications = EmptyBag
    /\ rateLimits = [k \in PurchaseRateKeys |->
                        Some([count |-> Limits(k[2]).max_attempts, window_start |-> 0])]
    /\ now = 0
    /\ pc = [p \in Procs |-> "idle"]
    /\ loc = [p \in Procs |-> IdleLoc]
    /\ opCount = 0
    /\ winAllowed = [k \in PurchaseRateKeys |-> Limits(k[2]).max_attempts]
    /\ encryptionKeyEnv = Some(EncryptionKey)
    /\ unswept = rateLimits
    /\ fingerprints = {}
    /\ cache = ColdCache(TRUE)

\* the store with two listings of any seller, title, category, brand and
\* status, L2 created after L1
DetectorTitles == {"a b c d", "A", " ", "x y"}

InitDetector ==
    /\ listings \in [DetectorListingIds ->
            [seller_id : {Seller, "b1"}, title : DetectorTitles, category : Categories,
             brand_name : {None, Some("acme")}, status : {"active", "sold"},
             created_at : {1, 2}]]
    /\ listings["L1"].created_at = 1
    /\ listings["L2"].created_at = 2
    /\ couponCodes = [l \in DetectorListingIds |-> None]
    /\ txs = <<>>
    /\ grants = {}
    /\ trust = [u \in Users |-> None]
    /\ reviews = <<>>
    /\ notifications = EmptyBag
    /\ rateLimits = [k \in RateKeys |-> None]
    /\ now = 2
    /\ pc = [p \in Procs |-> "idle"]
    /\ loc = [p \in Procs |-> IdleLoc]
    /\ opCount = 0
    /\ winAllowed = [k \in RateKeys |-> 0]
    /\ encryptionKeyEnv = Some(EncryptionKey)
    /\ unswept = rateLimits
    /\ fingerprints = {}
    /\ cache = ColdCache(TRUE)

\* the store before the seller's first listing: an active listing of another
\* seller exists
ExistingListingId == "L9"

\* the store after s1 created a gift card listing and b1 purchased it
InitProfile ==
    /\ listings = ExistingListingId :>
                      [seller_id |-> Seller, title |-> "A", selling_price |-> 20,
                       status |-> "sold", listing_type |-> "gift_card",
                       category |-> "food", brand_name |-> None, original_value |-> None,
                       discount_percentage |-> None, created_at |-> 0]
    /\ couponCodes = [l \in ListingIds |-> None]
    /\ txs = <<NewTransaction(ExistingListingId, "b1", Seller, 20)>>
    /\ grants = {}
    /\ trust = [u \in Users |-> IF u = Seller THEN Some(DefaultTrust) ELSE None]
    /\ reviews = <<>>
    /\ notifications = SetToBag({Notification(Seller, "new_sale", ExistingListingId, 1)})
    /\ rateLimits = [k \in RateKeys |-> None]
    /\ now = 0
    /\ pc = [p \in Procs |-> "idle"]
    /\ loc = [p \in Procs |-> IdleLoc]
    /\ opCount = 0
    /\ winAllowed = [k \in RateKeys |-> 0]
    /\ encryptionKeyEnv = Some(EncryptionKey)
    /\ unswept = rateLimits
    /\ fingerprints = {}
    /\ cache = ColdCache(TRUE)

InitCatalogueStore ==
    /\ listings = ExistingListingId :>
                      [seller_id |-> "b2", title |-> "A", selling_price |-> 20,
                       status |-> "active", listing_type |-> "gift_card",
                       category |-> "food", brand_name |-> None, original_value |-> None,
                       discount_percentage |-> None, created_at |-> 0]
    /\ couponCodes = [l \in ListingIds |-> None]
    /\ txs = <<>>
    /\ grants = {}
    /\ trust = [u \in Users |-> IF u = "b2" THEN Some(DefaultTrust) ELSE None]
    /\ reviews = <<>>
    /\ notifications = EmptyBag
    /\ rateLimits = [k \in RateKeys |-> None]
    /\ now = 0
    /\ pc = [p \in Procs |-> "idle"]
    /\ loc = [p \in Procs |-> IdleLoc]
    /\ opCount = 0
    /\ winAllowed = [k \in RateKeys |-> 0]
    /\ unswept = rateLimits
    /\ fingerprints = {}
    /\ cache = ColdCache(TRUE)

InitCatalogue == InitCatalogueStore /\ encryptionKeyEnv = Some(EncryptionKey)

\* the same store with ENCRYPTION_KEY set or not set
InitVault == InitCatalogueStore /\ encryptionKeyEnv \in {Some(EncryptionKey), None}

\* a discount code listing at any of the prices
InitListing ==
    /\ \E selling_price \in Prices : InitStore(selling_price)
    /\ \A l \in ListingIds : IsSome(couponCodes[l])

Purchase(p) ==
    \/ StartPurchase(p)
    \/ PurchaseSelect(p)
    \/ PurchaseInsert(p)
    \/ PurchaseUpdateListing(p)
    \/ PurchaseNotify(p)

Complete(p) ==
    \/ StartComplete(p)
    \/ CompleteSelect(p)
    \/ CompleteUpdate(p)
    \/ CompleteGrant(p)
    \/ CompleteCounts(p)
    \/ RecalcSelect(p)
    \/ RecalcUpdate(p)
    \/ CompleteNotify(p)

Reveal(p) ==
    \/ StartReveal(p)
    \/ RevealAccess(p)
    \/ RevealFetch(p)

Review(p) ==
    \/ StartReview(p)
    \/ ReviewSelect(p)
    \/ ReviewExists(p)
    \/ ReviewInsert(p)
    \/ ReviewNotify(p)

CreateListing(p) ==
    \/ StartCreateListing(p)
    \/ CreateListingInsert(p)
    \/ CreateListingCoupon(p)
    \/ CreateListingTrust(p)

GetUserProfile(p) ==
    \/ StartGetUserProfile(p)
    \/ GetUserProfileUser(p)
    \/ GetUserProfileEnsure(p)
    \/ GetUserProfileTrust(p)
    \/ GetUserProfileStats(p)

StoreFingerprint(p) ==
    \/ StartStoreFingerprint(p)
    \/ StoreFingerprintInsert(p)

CheckDuplicate(p) ==
    \/ StartCheckDuplicate(p)
    \/ CheckDuplicateSelect(p)

UpdateListing(p) ==
    \/ StartUpdateListing(p)
    \/ UpdateListingSelect(p)
    \/ UpdateListingUpdate(p)

CheckAndIncrement(p) ==
    \/ StartCheck(p)
    \/ RateCleanup(p)
    \/ RateSelect(p)
    \/ RateUpdate(p)
    \/ RateInsert(p)

CheckOnly(p) ==
    \/ StartCheckOnly(p)
    \/ CheckOnlySelect(p)

\* the transaction lifecycle: purchase, escrow, completion, reveal, cancel, dispute
Next ==
    \/ \E p \in Procs : Purchase(p)
    \/ \E p \in Procs : Complete(p)
    \/ \E p \in Procs : Reveal(p)
    \/ \E p \in Procs : CancelTransaction(p)
    \/ \E p \in Procs : DisputeTransaction(p)
    \/ \E p \in Procs : StoreFails(p)
    \/ EscrowHold

Spec == Init /\ [][Next]_vars

\* concurrent purchases, every statement succeeding
NextPurchase == \E p \in Procs : Purchase(p)

SpecPurchase == Init /\ [][NextPurchase]_vars

\* purchases and completions while listings are cached and invalidated and
\* Redis comes and goes
NextCache ==
    \/ \E p \in Procs : Purchase(p) \/ Complete(p)
    \/ EscrowHold
    \/ CacheListing
    \/ InvalidateListing
    \/ RedisOutage

SpecCache == InitCache /\ [][NextCache]_vars

\* listings created and profiles read while the seller's sale completes
NextProfile ==
    \/ \E p \in Procs : CreateListing(p) \/ GetUserProfile(p) \/ Complete(p) \/ StoreFails(p)
    \/ EscrowHold

SpecProfile == InitProfile /\ [][NextProfile]_vars

\* concurrent purchases, any statement failing
NextPurchaseFails == \E p \in Procs : Purchase(p) \/ StoreFails(p)

SpecPurchaseFails == Init /\ [][NextPurchaseFails]_vars

\* the reputation engine: purchase, escrow, completion and reviews, every
\* statement succeeding
NextReputation ==
    \/ \E p \in Procs : Purchase(p)
    \/ \E p \in Procs : Complete(p)
    \/ \E p \in Procs : Review(p)
    \/ EscrowHold

SpecReputation == InitDiscountCode /\ [][NextReputation]_vars

\* the rate limiter: concurrent check_and_increment calls and the clock
NextRate ==
    \/ \E p \in Procs : CheckAndIncrement(p)
    \/ \E p \in Procs : StoreFails(p)
    \/ Tick

SpecRate == InitDiscountCode /\ [][NextRate]_vars

\* listings are created, updated and purchased
NextCatalogue ==
    \E p \in Procs : CreateListing(p) \/ UpdateListing(p) \/ Purchase(p) \/ StoreFails(p)

SpecCatalogue == InitCatalogue /\ [][NextCatalogue]_vars

\* listings are created and their codes revealed, with ENCRYPTION_KEY set
\* or not
NextVault ==
    \E p \in Procs : CreateListing(p) \/ Reveal(p) \/ StoreFails(p)

SpecVault == InitVault /\ [][NextVault]_vars

\* the duplicate detector called by one request at a time
NextDetector ==
    \E p \in Procs : /\ \A q \in Procs : q # p => pc[q] \in {"idle", "done"}
                      /\ (CheckDuplicate(p) \/ StoreFails(p))

SpecDetector == InitDetector /\ [][NextDetector]_vars

\* fingerprints stored by one request at a time
NextFingerprint ==
    \E p \in Procs : /\ \A q \in Procs : q # p => pc[q] \in {"idle", "done"}
                      /\ (StoreFingerprint(p) \/ StoreFails(p))

SpecFingerprint == Init /\ [][NextFingerprint]_vars

\* purchases while b1's purchase quota is used up
SpecQuotaExhausted == InitQuotaExhausted /\ [][NextPurchase]_vars

\* the rate limiter called by one request at a time
NextRateSequential ==
    \/ \E p \in Procs : /\ \A q \in Procs : q # p => pc[q] \in {"idle", "done"}
                         /\ CheckAndIncrement(p)
    \/ Tick

SpecRateSequential == InitDiscountCode /\ [][NextRateSequential]_vars

\* check_only and check_and_increment called by one request at a time
NextRateCheckOnly ==
    \/ \E p \in Procs : /\ \A q \in Procs : q # p => pc[q] \in {"idle", "done"}
                         /\ (CheckAndIncrement(p) \/ CheckOnly(p))
    \/ Tick

SpecRateCheckOnly == InitDiscountCode /\ [][NextRateCheckOnly]_vars

\* purchases and completions while the seller edits the listing
NextListing ==
    \/ \E p \in Procs : Purchase(p)
    \/ \E p \in Procs : Complete(p)
    \/ \E p \in Procs : UpdateListing(p)
    \/ EscrowHold

SpecListing == InitListing /\ [][NextListing]_vars

----------------------------------------------------------------------------
\* Properties

TxIds == 1..Len(txs)

TxsOf(l) == {t \in TxIds : txs[t].listing_id = l}

\* the statement at pc[p] failed in this step
StoreFailedIn(p) ==
    /\ pc'[p] = "done"
    /\ loc'[p].result.kind = "InternalError"
    /\ loc'[p].result.msg = "store"

\* C1: concurrent purchases of one Active listing by distinct buyers: exactly one
\* wins, so no listing ever has the transaction rows of two distinct buyers.
C1_OneBuyerWins ==
    \A l \in ListingIds : \A t1, t2 \in TxsOf(l) : txs[t1].buyer_id = txs[t2].buyer_id

\* C2: the transaction row and the flip of the listing to Sold are one atomic
\* unit: no state has a transaction row whose listing is still Active.
C2_NoTransactionOnActiveListing ==
    \A t \in TxIds : listings[txs[t].listing_id].status # "active"

\* C3: each unit of quota is won by exactly one call: the calls allowed in a
\* window never exceed max attempts, and while no call is between its read and
\* its write the stored count is the number of calls allowed in the window.
C3_QuotaWonOnce ==
    \A k \in RateKeys :
        /\ winAllowed[k] <= Limits(k[2]).max_attempts
        /\ (/\ IsSome(rateLimits[k])
            /\ \A p \in Procs : pc[p] \notin {"rl_update", "rl_insert"})
           => Unwrap(rateLimits[k]).count = winAllowed[k]

CompletedFor(l, u) ==
    \E t \in TxIds : /\ txs[t].listing_id = l
                     /\ txs[t].buyer_id = u
                     /\ txs[t].status = "completed"

\* C4: a grant for (listing, user) exists only if a transaction of that user on
\* that listing is Completed, and a requester who is not the seller passes the
\* access check of reveal only with such a transaction.
C4_GrantOnlyAfterCompleted ==
    /\ \A g \in grants : CompletedFor(g.listing_id, g.user_id)
    /\ \A p \in Procs :
          (pc[p] = "gc_fetch" /\ loc[p].caller # listings[loc[p].listing_id].seller_id)
             => CompletedFor(loc[p].listing_id, loc[p].caller)

C4_Witness ==
    \E p \in Procs :
        /\ pc[p] = "gc_fetch"
        /\ loc[p].caller # listings[loc[p].listing_id].seller_id
        /\ \E g \in grants : g.user_id = loc[p].caller

Authorized(l, u) ==
    \/ listings[l].seller_id = u
    \/ [listing_id |-> l, user_id |-> u] \in
          {[listing_id |-> g.listing_id, user_id |-> g.user_id] : g \in grants}

\* C5: reveal passes the requester exactly when the requester is the listing's
\* seller or holds a grant for the listing; every other requester is answered
\* Ok(None), never the secret; an authorized requester of a stored secret is
\* answered the secret; no step of reveal changes the store.  (A statement of
\* the store that fails is answered with the store's error to any requester.)
C5_RevealStep(p) ==
    LET l == loc[p].listing_id
        u == loc[p].caller
        res == loc'[p].result
    IN  /\ (pc[p] = "gc_access" /\ pc'[p] # "gc_access" /\ ~StoreFailedIn(p)) =>
              /\ Authorized(l, u) => pc'[p] = "gc_fetch"
              /\ ~Authorized(l, u) =>
                    /\ pc'[p] = "done"
                    /\ res.kind = "Ok" /\ res.msg = "None" /\ res.data = ""
        /\ (pc[p] = "gc_fetch" /\ pc'[p] # "gc_fetch") =>
              /\ Authorized(l, u)
              /\ (IsSome(couponCodes[l]) /\ ~StoreFailedIn(p)) =>
                    res.kind = "Ok" /\ res.msg = "Some" /\ res.data = Secret
              /\ ~IsSome(couponCodes[l]) => res.data = ""
        /\ (pc[p] \in {"gc_access", "gc_fetch"} /\ pc'[p] # pc[p]) => UNCHANGED store

C5_RevealAuthorization == [][\A p \in Procs : C5_RevealStep(p)]_vars

C5_Witness ==
    /\ \E p \in Procs : /\ pc[p] = "done"
                        /\ loc[p].op = "reveal"
                        /\ loc[p].result.data = Secret
    /\ \E g \in grants : g.user_id # Seller

\* C6: once the concurrent completions and reviews have finished, the stored
\* trust score, average rating and review count of every user are the formula
\* applied to the final aggregates.
C6_ScoreMatchesAggregates ==
    (\A p \in Procs : pc[p] \in {"idle", "done"}) =>
        \A u \in Users : IsSome(trust[u]) =>
            LET row == Unwrap(trust[u])
                avg == AvgRating(reviews, u)
            IN  /\ row.total_reviews = ReviewCount(reviews, u)
                /\ row.average_rating = (IF IsSome(avg) THEN Unwrap(avg) ELSE 0)
                /\ row.trust_score =
                      TrustScoreOf(row.total_transactions, row.successful_transactions,
                                   row.verified_seller, ReviewCount(reviews, u), avg)

\* C7: complete goes on only for the buyer on an Escrow transaction; another
\* caller is answered Forbidden, another status Conflict, and then the
\* transaction, the grants and the trust scores are unchanged.
C7_CompleteStep(p) ==
    LET t == loc[p].tx_id
        res == loc'[p].result
    IN  (pc[p] = "cp_select" /\ pc'[p] # "cp_select" /\ t \in TxIds /\ ~StoreFailedIn(p)) =>
           /\ pc'[p] = "cp_update" <=>
                 (txs[t].buyer_id = loc[p].caller /\ txs[t].status = "escrow")
           /\ txs[t].buyer_id # loc[p].caller =>
                 (res.kind = "Forbidden" /\ UNCHANGED <<txs, grants, trust>>)
           /\ (txs[t].buyer_id = loc[p].caller /\ txs[t].status # "escrow") =>
                 (res.kind = "Conflict" /\ UNCHANGED <<txs, grants, trust>>)

C7_CompleteGuards == [][\A p \in Procs : C7_CompleteStep(p)]_vars

\* C8: in every state, also part-way through complete or after a failure in
\* it, a Completed transaction has its grant for (listing, buyer).
C8_CompletedHasGrant ==
    \A t \in TxIds : txs[t].status = "completed" =>
        \E g \in grants : g.listing_id = txs[t].listing_id /\ g.user_id = txs[t].buyer_id

AllowedEdges ==
    {<<"pending", "escrow">>, <<"pending", "cancelled">>,
     <<"escrow", "completed">>, <<"escrow", "cancelled">>, <<"escrow", "disputed">>,
     <<"completed", "disputed">>,
     <<"disputed", "completed">>, <<"disputed", "cancelled">>}

\* C9: a transaction is created Pending, its row stays, and its status changes
\* only along the allowed edges (none enters Pending, none leaves Completed or
\* Cancelled except Completed -> Disputed).
C9_StatusStep ==
    /\ Len(txs') >= Len(txs)
    /\ \A t \in 1..Len(txs') :
          IF t \in TxIds
            THEN txs'[t].status = txs[t].status
                    \/ <<txs[t].status, txs'[t].status>> \in AllowedEdges
            ELSE txs'[t].status = "pending"

C9_StatusEdges == [][C9_StatusStep]_vars

C9_Witness == \E t \in TxIds : txs[t].status = "completed"

\* C10: a cancel request answered with success on a Pending or Escrow
\* transaction has moved it to Cancelled, and a dispute request answered with
\* success on an Escrow or Completed transaction has moved it to Disputed.
C10_RequestStep(p) ==
    LET t == loc'[p].tx_id IN
    (/\ pc'[p] = "done" /\ opCount' = opCount + 1
     /\ loc'[p].result.kind = "Ok"
     /\ t \in TxIds
     /\ loc'[p].caller \in {txs[t].buyer_id, txs[t].seller_id}) =>
        /\ (loc'[p].op = "cancel" /\ txs[t].status \in {"pending", "escrow"})
              => txs'[t].status = "cancelled"
        /\ (loc'[p].op = "dispute" /\ txs[t].status \in {"escrow", "completed"})
              => txs'[t].status = "disputed"

C10_CancelDisputeTakeEffect == [][\A p \in Procs : C10_RequestStep(p)]_vars

\* C11: a listing's status is one of active, sold, expired, suspended; it
\* changes only from active to sold, by a purchase, and a purchase writes sold
\* only onto a listing that is active.
ListingStatuses == {"active", "sold", "expired", "suspended"}

C11_ListingStep ==
    \A l \in ListingIds :
        /\ listings'[l].status \in ListingStatuses
        /\ listings'[l].status # listings[l].status =>
              /\ listings[l].status = "active"
              /\ listings'[l].status = "sold"
              /\ \E p \in Procs : pc[p] = "ct_update" /\ loc[p].listing_id = l
        /\ \A p \in Procs :
              (pc[p] = "ct_update" /\ pc'[p] = "ct_notify" /\ loc[p].listing_id = l)
                  => listings[l].status = "active"

C11_ListingStatusEdges == [][C11_ListingStep]_vars

\* C12: a purchase of a listing that is not active fails with Conflict and
\* writes nothing.
C12_PurchaseStep(p) ==
    LET l == loc[p].listing_id IN
    (/\ pc[p] = "ct_select" /\ pc'[p] # "ct_select"
     /\ l \in ListingIds
     /\ listings[l].status # "active")
        => /\ pc'[p] = "done"
           /\ loc'[p].result.kind = "Conflict"
           /\ UNCHANGED store

C12_NotActiveIsConflict == [][\A p \in Procs : C12_PurchaseStep(p)]_vars

\* C13: no transaction has its seller as buyer; a purchase by the listing's
\* seller fails with InvalidOperation, creates no transaction and leaves the
\* listing active.
C13_PurchaseStep(p) ==
    LET l == loc[p].listing_id IN
    (/\ pc[p] = "ct_select" /\ pc'[p] # "ct_select"
     /\ l \in ListingIds
     /\ listings[l].status = "active"
     /\ listings[l].seller_id = loc[p].caller)
        => /\ pc'[p] = "done"
           /\ loc'[p].result.kind = "InvalidOperation"
           /\ UNCHANGED store

C13_NoSelfPurchase ==
    [][/\ \A t \in 1..Len(txs') : txs'[t].buyer_id # txs'[t].seller_id
       /\ \A p \in Procs : C13_PurchaseStep(p)]_vars

\* C14: a transaction is created with the selling price the purchase read from
\* the listing as its amount, and no later step (completion, update of the
\* listing) changes the amount of an existing transaction.
C14_AmountStep ==
    /\ \A t \in TxIds : t <= Len(txs') /\ txs'[t].amount = txs[t].amount
    /\ Len(txs') > Len(txs) =>
          \E p \in Procs : pc[p] = "ct_insert" /\ pc'[p] = "ct_update"
    /\ \A p \in Procs :
          /\ (pc[p] = "ct_select" /\ pc'[p] = "ct_insert")
                => loc'[p].price = listings[loc[p].listing_id].selling_price
          /\ (pc[p] = "ct_insert" /\ pc'[p] = "ct_update")
                => /\ Len(txs') = Len(txs) + 1
                   /\ txs'[Len(txs')].amount = loc[p].price

C14_AmountIsSnapshot == [][C14_AmountStep]_vars

C14_Witness ==
    \E t \in TxIds : /\ txs[t].status = "completed"
                     /\ txs[t].amount = 35
                     /\ listings[txs[t].listing_id].title # "t0"

\* C15: called by one request at a time with max = 10 and a 60 minute window,
\* a call that finds a live window with fewer than 10 allowed calls is allowed,
\* a call is denied only after 10 allowed calls of the window and then with
\* retry_after > 0, and a call that finds the window expired is allowed with
\* remaining = max - 1.
C15_CallStep(p) ==
    LET k == KeyOf(p)
        max == Limits(loc[p].action).max_attempts
        window == Limits(loc[p].action).window_minutes
        started == loc[p].threshold + window
        res == loc'[p].result
    IN  /\ (pc[p] = "rl_select" /\ pc'[p] # "rl_select" /\ IsSome(rateLimits[k])) =>
              LET row == Unwrap(rateLimits[k]) IN
              /\ (row.window_start + window > started /\ winAllowed[k] < max)
                    => pc'[p] = "rl_update"
              /\ row.window_start + window <= started => pc'[p] = "rl_insert"
        /\ (pc[p] = "rl_select" /\ pc'[p] = "done") =>
              /\ winAllowed[k] >= max
              /\ ~res.allowed
              /\ res.retry_after > 0
        /\ (pc[p] = "rl_update" /\ pc'[p] = "done") =>
              /\ res.allowed
              /\ winAllowed'[k] <= max
              /\ res.remaining = max - winAllowed'[k]
        /\ (pc[p] = "rl_insert" /\ pc'[p] = "done") =>
              res.allowed /\ res.remaining = max - 1

C15_TenThenDenied == [][\A p \in Procs : C15_CallStep(p)]_vars

\* C16: a purchase by a buyer whose purchase quota of the current window is
\* used up is refused with RateLimited before anything is written: no
\* transaction, no change of the listing.
QuotaExhausted(user, action) ==
    /\ <<user, action>> \in DOMAIN rateLimits
    /\ IsSome(rateLimits[<<user, action>>])
    /\ LET row == Unwrap(rateLimits[<<user, action>>]) IN
          /\ row.count >= Limits(action).max_attempts
          /\ row.window_start + Limits(action).window_minutes > now

C16_PurchaseStep(p) ==
    (/\ pc[p] = "ct_select" /\ pc'[p] # "ct_select"
     /\ QuotaExhausted(loc[p].caller, "create_transaction"))
        => /\ pc'[p] = "done"
           /\ loc'[p].result.kind = "RateLimited"
           /\ UNCHANGED <<listings, txs>>

C16_PurchaseIsRateLimited == [][\A p \in Procs : C16_PurchaseStep(p)]_vars

\* C17: the stored trust score of every user is in [0, 100] in every state.
C17_ScoreInRange ==
    \A u \in Users : IsSome(trust[u]) =>
        /\ Unwrap(trust[u]).trust_score >= 0
        /\ Unwrap(trust[u]).trust_score <= 100 * Milli

\* C18: recompute run a second time on the row the first run leaves, with the
\* same reviews and counts, leaves the score, the average rating and the
\* review count as the first run left them.
C18_RecomputeIdempotent ==
    \A u \in Users : IsSome(trust[u]) =>
        LET once == Recalculated(Unwrap(trust[u]), StatsOf(Unwrap(trust[u]), reviews, u))
            twice == Recalculated(once, StatsOf(once, reviews, u))
        IN  /\ twice.trust_score = once.trust_score
            /\ twice.average_rating = once.average_rating
            /\ twice.total_reviews = once.total_reviews

C18_Witness ==
    /\ \A p \in Procs : pc[p] \in {"idle", "done"}
    /\ \E u \in Users :
          /\ IsSome(trust[u])
          /\ Unwrap(trust[u]).total_reviews >= 1
          /\ Unwrap(trust[u]).total_transactions >= 1

\* C19: recompute writes 50 + successRate * 30 + (avgRating / 5) * 30
\* + min(reviewCount, 10) + (10 if verified), clamped to [0, 100], with
\* successRate 0 for a user without transactions and no rating term for a
\* user without reviews.
ClaimedScore(st) ==
    LET rate == IF st.total_transactions = 0 THEN 0
                ELSE (st.successful_transactions * 30 * Milli) \div st.total_transactions
        rating == IF IsSome(st.avg_rating) THEN (Unwrap(st.avg_rating) * 30) \div 5 ELSE 0
        count == (IF st.review_count < 10 THEN st.review_count ELSE 10) * Milli
        bonus == IF st.verified_seller THEN 10 * Milli ELSE 0
        raw == 50 * Milli + rate + rating + count + bonus
    IN  IF raw < 0 THEN 0 ELSE IF raw > 100 * Milli THEN 100 * Milli ELSE raw

C19_RecomputeStep(p) ==
    (pc[p] = "rc_update" /\ pc'[p] # "rc_update") =>
        Unwrap(trust'[loc[p].target]).trust_score = ClaimedScore(Unwrap(loc[p].stats))

C19_ScoreFormula == [][\A p \in Procs : C19_RecomputeStep(p)]_vars

\* C20: the seller of every listing has a trust score record, and when a
\* purchase returns successfully its buyer has one.
C20_PurchaseStep(p) ==
    (pc[p] = "ct_notify" /\ pc'[p] = "done" /\ loc'[p].result.kind = "Ok")
        => IsSome(trust'[loc[p].caller])

C20_TrustRecordExists ==
    [][/\ \A l \in ListingIds : IsSome(trust'[listings'[l].seller_id])
       /\ \A p \in Procs : C20_PurchaseStep(p)]_vars

\* C21: when create_review returns successfully the reviewed party has a
\* trust score record whose review count includes the new review and whose
\* average rating and score are computed over at least that review.
C21_ReviewStep(p) ==
    (pc[p] = "rv_notify" /\ pc'[p] = "done" /\ loc'[p].result.kind = "Ok") =>
        LET u == loc[p].target IN
        /\ IsSome(trust'[u])
        /\ Unwrap(trust'[u]).total_reviews >= 1
        /\ Unwrap(trust'[u]).total_reviews <= ReviewCount(reviews', u)

C21_ReviewIsCounted == [][\A p \in Procs : C21_ReviewStep(p)]_vars

\* C22: no two reviews have the same transaction and the same reviewer.
C22_OneReviewPerReviewer ==
    \A i, j \in 1..Len(reviews) :
        (reviews[i].transaction_id = reviews[j].transaction_id
         /\ reviews[i].reviewer_id = reviews[j].reviewer_id) => i = j

\* C23: a review of a transaction that is not completed fails with Conflict,
\* a review by someone who is neither buyer nor seller fails with Forbidden,
\* both without a write; otherwise the reviewed party is the reviewer's
\* counterpart.
C23_ReviewStep(p) ==
    LET t == loc[p].tx_id
        res == loc'[p].result
    IN  (pc[p] = "rv_select" /\ pc'[p] # "rv_select" /\ t \in TxIds) =>
          IF txs[t].status # "completed"
            THEN pc'[p] = "done" /\ res.kind = "Conflict" /\ UNCHANGED store
          ELSE IF loc[p].caller \notin {txs[t].buyer_id, txs[t].seller_id}
            THEN pc'[p] = "done" /\ res.kind = "Forbidden" /\ UNCHANGED store
          ELSE /\ pc'[p] = "rv_exists"
               /\ loc'[p].target = (IF loc[p].caller = txs[t].buyer_id
                                      THEN txs[t].seller_id ELSE txs[t].buyer_id)

C23_ReviewGuards == [][\A p \in Procs : C23_ReviewStep(p)]_vars

\* C24: every stored review has a rating from 1 to 5 and its transaction is
\* completed.
C24_ReviewsWellFormed ==
    \A i \in 1..Len(reviews) :
        /\ reviews[i].rating \in 1..5
        /\ txs[reviews[i].transaction_id].status = "completed"

\* C25 as stated: a title and a code that are the same non-empty string have
\* similarity 1.0 and, with a matching brand, confidence 85; a title and a code
\* without a common token have similarity 0.0 and are not flagged.
C25_IdenticalAndDisjoint ==
    \A p \in Procs : pc[p] = "dd_select" =>
        \A l \in DOMAIN listings :
            LET title == listings[l].title
                sim == CalculateSimilarity(title, loc[p].code)
            IN  /\ (title = loc[p].code /\ title # "") =>
                      /\ sim.num = sim.den
                      /\ (IsSome(loc[p].brand) /\ listings[l].brand_name = loc[p].brand)
                            => ConfidenceOf(listings[l], loc[p].code, loc[p].brand) = 85
                /\ TokensOf(title) \cap TokensOf(loc[p].code) = {} =>
                      /\ sim.num = 0
                      /\ ConfidenceOf(listings[l], loc[p].code, loc[p].brand) = 0

\* C25 amended: the same for a title and a code that are the same string with
\* at least one token, that is, not made of whitespace only.
C25_IdenticalWithTokenAndDisjoint ==
    \A p \in Procs : pc[p] = "dd_select" =>
        \A l \in DOMAIN listings :
            LET title == listings[l].title
                sim == CalculateSimilarity(title, loc[p].code)
            IN  /\ (title = loc[p].code /\ \E i \in 1..Len(CharsOf[title]) : CharsOf[title][i] # " ") =>
                      /\ sim.num = sim.den
                      /\ (IsSome(loc[p].brand) /\ listings[l].brand_name = loc[p].brand)
                            => ConfidenceOf(listings[l], loc[p].code, loc[p].brand) = 85
                /\ TokensOf(title) \cap TokensOf(loc[p].code) = {} =>
                      /\ sim.num = 0
                      /\ ConfidenceOf(listings[l], loc[p].code, loc[p].brand) = 0

C25_Witness ==
    \E p \in Procs :
        /\ pc[p] = "dd_select"
        /\ loc[p].code = "a b c d"
        /\ listings["L1"].title = "a b c d"
        /\ listings["L1"].brand_name = loc[p].brand
        /\ CalculateSimilarity(listings["L1"].title, loc[p].code) = [num |-> 4, den |-> 4]
        /\ ConfidenceOf(listings["L1"], loc[p].code, loc[p].brand) = 85
        /\ listings["L2"].title = "x y"
        /\ ConfidenceOf(listings["L2"], loc[p].code, loc[p].brand) = 0

\* what C26 says of a listing and a request: whether it is a candidate, and
\* its classification, 0 when it is not flagged
C26_Candidate(l, req) ==
    /\ listings[l].status = "active"
    /\ listings[l].category = req.category
    /\ listings[l].seller_id # req.caller
    /\ (req.brand = None \/ listings[l].brand_name = req.brand)

C26_Classification(l, req) ==
    LET t1 == TokensOf(listings[l].title)
        t2 == TokensOf(req.code)
        inter == Cardinality(t1 \cap t2)
        union == Cardinality(t1 \cup t2)
        nonEmpty == t1 # {} /\ t2 # {}
    IN  IF req.brand # None /\ listings[l].brand_name = req.brand
           /\ nonEmpty /\ 10 * inter > 7 * union THEN 85
        ELSE IF nonEmpty /\ 10 * inter > 8 * union THEN 75
        ELSE 0

C26_Flagged(req) == {l \in DOMAIN listings : C26_Candidate(l, req) /\ C26_Classification(l, req) > 0}

C26_CheckStep(p) ==
    (pc[p] = "dd_select" /\ pc'[p] = "done" /\ loc'[p].result.kind = "Ok") =>
        LET res == loc'[p].result
        IN  IF C26_Flagged(loc[p]) = {}
              THEN res.msg = "None"
              ELSE /\ res.msg = "Some"
                   /\ res.data \in C26_Flagged(loc[p])
                   /\ res.val = C26_Classification(res.data, loc[p])
                   /\ \A m \in C26_Flagged(loc[p]) :
                         listings[m].created_at <= listings[res.data].created_at

\* C26: the detector answers with the most recent flagged candidate, flagged
\* at 85 for a brand match with similarity above 0.7 and otherwise at 75 for
\* similarity above 0.8, and with none when no candidate is flagged; the
\* answer is never a listing of the excluded seller, of another category or
\* not active.
C26_FirstFlaggedCandidate == [][\A p \in Procs : C26_CheckStep(p)]_vars

\* both listings are flagged and the more recent one is returned
C26_Witness ==
    \E p \in Procs :
        /\ pc[p] = "done"
        /\ loc[p].op = "check_duplicate"
        /\ loc[p].result.msg = "Some"
        /\ loc[p].result.data = "L2"
        /\ loc[p].result.val = 75
        /\ listings["L1"].status = "active"
        /\ listings["L1"].seller_id = "b1"
        /\ listings["L1"].title = listings["L2"].title
        /\ listings["L1"].category = listings["L2"].category

\* the request in slot p is create_listing about to insert a listing whose
\* coupon code the duplicate detector flags
C27_Flagged(p) ==
    /\ pc[p] = "cl_insert"
    /\ IsSome(loc[p].coupon_code)
    /\ FindSimilarListings(Unwrap(loc[p].coupon_code), loc[p].category, loc[p].brand,
                           loc[p].caller) # <<>>

\* C27: create_listing does not persist a listing the duplicate detector
\* flags as similar to an active listing of another seller.
C27_DuplicateNotPersisted ==
    [][\A p \in Procs : C27_Flagged(p) => listings' = listings]_vars

\* C28: a reveal of a stored coupon code by the seller or by the holder of
\* an access grant returns the plaintext create_listing stored, unless the
\* store failed.
C28_RevealStep(p) ==
    (/\ pc[p] = "gc_fetch"
     /\ pc'[p] = "done"
     /\ HasAccess(loc[p].listing_id, loc[p].caller)
     /\ IsSome(couponCodes[loc[p].listing_id])
     /\ ~(loc'[p].result.kind = "InternalError" /\ loc'[p].result.msg = "store")) =>
        LET stored == Unwrap(couponCodes[loc[p].listing_id])
        IN  IF stored.parts # 2
              THEN loc'[p].result.kind = "InternalError"
              ELSE /\ loc'[p].result.kind = "Ok"
                   /\ loc'[p].result.msg = "Some"
                   /\ loc'[p].result.data = stored.code.p

C28_RevealReturnsStored == [][\A p \in Procs : C28_RevealStep(p)]_vars

\* what C29 says the discount percentage of a listing is, in thousandths
C29_Claimed(row) ==
    IF IsSome(row.original_value)
      THEN /\ IsSome(row.discount_percentage)
           /\ Unwrap(row.discount_percentage) * Unwrap(row.original_value)
                = (Unwrap(row.original_value) - row.selling_price) * 100 * Milli
      ELSE row.discount_percentage = None

\* C29: a listing is created with the discount percentage
\* (original_value - selling_price) / original_value * 100, and no later step
\* changes the discount percentage of a listing.
C29_DiscountFixedAtCreation ==
    [][\A l \in DOMAIN listings' :
          IF l \in DOMAIN listings
            THEN listings'[l].discount_percentage = listings[l].discount_percentage
            ELSE C29_Claimed(listings'[l])]_vars

\* the listing of the example, 25.00 and 20.00 giving 20.0, sold and renamed
C29_Witness ==
    /\ "L1" \in DOMAIN listings
    /\ listings["L1"].original_value = Some(25)
    /\ listings["L1"].selling_price = 20
    /\ listings["L1"].discount_percentage = Some(20 * Milli)
    /\ listings["L1"].title = "t1"
    /\ listings["L1"].status = "sold"

\* C30: a call treats the counter as expired exactly when the time of the
\* call minus window_start is greater than the window, so that a call at
\* exactly the window's length still counts against the stored window; a
\* call that finds no counter or an expired one sets count = 1 and
\* window_start = now and is allowed.
C30_CallStep(p) ==
    LET k == KeyOf(p)
        window == Limits(loc[p].action).window_minutes
        called == loc[p].threshold + window
        res == loc'[p].result
        expired == \/ ~IsSome(rateLimits[k])
                   \/ called - Unwrap(rateLimits[k]).window_start > window
    IN  /\ (/\ pc[p] = "rl_select"
            /\ pc'[p] # "rl_select"
            /\ ~(pc'[p] = "done" /\ res.kind = "InternalError")) =>
              (pc'[p] = "rl_insert" <=> expired)
        /\ (pc[p] = "rl_insert" /\ pc'[p] = "done" /\ res.kind = "Ok") =>
              /\ rateLimits'[k] = Some([count |-> 1, window_start |-> now])
              /\ res.allowed

C30_ExpiredOnlyPastWindow == [][\A p \in Procs : C30_CallStep(p)]_vars

\* C31: a call that found a live counter with count < max adds exactly one
\* to the stored count, leaves window_start as it is, and is allowed with
\* remaining = max - the new stored count.
C31_IncrementStep(p) ==
    (pc[p] = "rl_update" /\ pc'[p] = "done" /\ loc'[p].result.kind = "Ok") =>
        LET k == KeyOf(p)
            max == Limits(loc[p].action).max_attempts
            res == loc'[p].result
        IN  /\ IsSome(rateLimits[k])
            /\ IsSome(rateLimits'[k])
            /\ Unwrap(rateLimits'[k]).count = Unwrap(rateLimits[k]).count + 1
            /\ Unwrap(rateLimits'[k]).window_start = Unwrap(rateLimits[k]).window_start
            /\ res.allowed
            /\ res.remaining = max - Unwrap(rateLimits'[k]).count

C31_IncrementByOne == [][\A p \in Procs : C31_IncrementStep(p)]_vars

\* C32: a call that finds a live counter with count >= max is denied with
\* remaining = 0 and retry_after = window_start + window - now, or 0 when
\* that is negative, and leaves the counters as they are.
C32_DenyStep(p) ==
    LET k == KeyOf(p)
        limit == Limits(loc[p].action)
        res == loc'[p].result
    IN  (/\ pc[p] = "rl_select"
         /\ pc'[p] # "rl_select"
         /\ ~(pc'[p] = "done" /\ res.kind = "InternalError")
         /\ IsSome(rateLimits[k])
         /\ Unwrap(rateLimits[k]).window_start > loc[p].threshold
         /\ Unwrap(rateLimits[k]).count >= limit.max_attempts) =>
            LET left == (Unwrap(rateLimits[k]).window_start + limit.window_minutes - now) * 60
            IN  /\ pc'[p] = "done"
                /\ ~res.allowed
                /\ res.remaining = 0
                /\ res.retry_after = IF left < 0 THEN 0 ELSE left
                /\ rateLimits' = rateLimits

C32_DenyLeavesCounter == [][\A p \in Procs : C32_DenyStep(p)]_vars

\* a denial after the reset time of the counter it found: retry_after is 0
C32_Witness ==
    \E p \in Procs :
        /\ pc[p] = "done"
        /\ loc[p].op = "check_and_increment"
        /\ loc[p].result.kind = "Ok"
        /\ ~loc[p].result.allowed
        /\ loc[p].result.retry_after = 0
        /\ loc[p].result.reset_at < now
        /\ \E k \in RateKeys : IsSome(rateLimits[k])
              /\ Unwrap(rateLimits[k]).count = Limits(k[2]).max_attempts

\* the answer of a call that finds `row` with its threshold: allowed or not,
\* and remaining
C33_Answer(row, threshold, max) ==
    IF IsSome(row) /\ Unwrap(row).window_start > threshold
      THEN IF Unwrap(row).count >= max
             THEN [allowed |-> FALSE, remaining |-> 0]
             ELSE [allowed |-> TRUE, remaining |-> max - (Unwrap(row).count + 1)]
      ELSE [allowed |-> TRUE, remaining |-> max - 1]

C33_CallStep(p) ==
    LET k == KeyOf(p)
        limit == Limits(loc[p].action)
    IN  /\ (pc[p] = "rl_select" /\ pc'[p] # "rl_select") =>
              C33_Answer(rateLimits[k], loc[p].threshold, limit.max_attempts)
                = C33_Answer(unswept[k], loc[p].threshold, limit.max_attempts)
        /\ (pc[p] = "rl_cleanup" /\ pc'[p] # "rl_cleanup") => pc'[p] = "rl_select"
        /\ (pc[p] = "rl_cleanup" /\ pc'[p] = "rl_select") =>
              \A j \in RateKeys :
                 (IsSome(rateLimits[j]) /\ ~IsSome(rateLimits'[j])) =>
                    now - Unwrap(rateLimits[j]).window_start > Limits(j[2]).window_minutes

\* C33: every call gets the answer it would get had no sweep ever deleted a
\* counter, the sweep of a call never ends the call, and the sweep deletes no
\* counter whose window is live.
C33_SweepChangesNothing == [][\A p \in Procs : C33_CallStep(p)]_vars

\* C34: when a purchase returns an error, the transaction it inserted, if
\* any, is not in the store and the listing is not left Sold by it.
C34_ErrorStep(p) ==
    (/\ pc[p] \in {"ct_select", "ct_insert", "ct_update", "ct_notify"}
     /\ pc'[p] = "done"
     /\ loc'[p].result.kind # "Ok") =>
        /\ loc[p].tx_id \notin DOMAIN txs'
        /\ pc[p] = "ct_notify" => listings'[loc[p].listing_id].status # "sold"

C34_ErrorPersistsNothing == [][\A p \in Procs : C34_ErrorStep(p)]_vars

\* C35: when a purchase returns successfully, the transaction it returns is
\* Pending, of the purchased listing, with the listing's seller as seller and
\* the caller as buyer, the listing is Sold, and the step has added exactly
\* one notification, addressed to the seller.
C35_SuccessStep(p) ==
    (pc[p] = "ct_notify" /\ pc'[p] = "done" /\ loc'[p].result.kind = "Ok") =>
        LET t == loc'[p].result.val
            l == loc[p].listing_id
        IN  /\ t \in DOMAIN txs'
            /\ txs'[t].status = "pending"
            /\ txs'[t].listing_id = l
            /\ txs'[t].seller_id = listings'[l].seller_id
            /\ txs'[t].buyer_id = loc[p].caller
            /\ listings'[l].status = "sold"
            /\ \E n \in BagToSet(notifications') :
                  /\ n.user_id = listings'[l].seller_id
                  /\ notifications' = notifications (+) SetToBag({n})

C35_PurchaseEffects == [][\A p \in Procs : C35_SuccessStep(p)]_vars

C35_Witness ==
    \E p \in Procs :
        /\ pc[p] = "done"
        /\ loc[p].op = "purchase"
        /\ loc[p].result.kind = "Ok"
        /\ loc[p].result.val = 1
        /\ txs[1].status = "pending"
        /\ txs[1].buyer_id = "b1"
        /\ listings["L1"].status = "sold"
        /\ BagCardinality(notifications) = 1

\* a code without its whitespace and hyphens, letters in lower case
C36_Folded(code) ==
    SelectSeq([i \in 1..Len(code) |-> LowercaseOf(code[i])],
              LAMBDA c : c \notin {" ", "\t", "\n", "-"})

\* the requests that differ from the request in slot p only in letter case,
\* whitespace and hyphens of the code and in the case of the brand
C36_Equivalent(p) ==
    {r \in [code : FingerprintCodes, brand : {None} \cup {Some(b) : b \in FingerprintBrands}] :
        /\ C36_Folded(r.code) = C36_Folded(loc[p].chars)
        /\ IsSome(r.brand) = IsSome(loc[p].brand)
        /\ IsSome(r.brand) => LowercaseOf(Unwrap(r.brand)) = LowercaseOf(Unwrap(loc[p].brand))}

C36_StoreStep(p) ==
    (pc[p] = "sf_insert" /\ pc'[p] = "done" /\ loc'[p].result.kind = "Ok") =>
        LET rows == {r \in fingerprints' : r.listing_id = loc[p].listing_id}
        IN  /\ Cardinality(rows) = 1
            /\ \A row \in rows : \A r \in C36_Equivalent(p) :
                   row.fingerprint = GenerateFingerprint(r.code, loc[p].category, r.brand)

\* C36: the fingerprint stored for a code is the fingerprint of every code
\* that differs from it only in letter case, whitespace or hyphens, with the
\* same category and the brand up to case, and a listing has exactly one
\* stored fingerprint.
C36_FingerprintNormalised == [][\A p \in Procs : C36_StoreStep(p)]_vars

\* what the store alone says of the request about to run its SELECT: the
\* error it gets, or "" when it goes on
C37_Decision(p) ==
    IF pc[p] = "ct_select"
      THEN LET l == loc[p].listing_id IN
           IF l \notin DOMAIN listings THEN "Listing not found"
           ELSE IF listings[l].status # "active" THEN "Listing is not available for purchase"
           ELSE IF listings[l].seller_id = loc[p].caller
             THEN "You cannot purchase your own listing"
           ELSE ""
      ELSE LET t == loc[p].tx_id IN
           IF t \notin DOMAIN txs THEN "Transaction not found"
           ELSE IF txs[t].buyer_id # loc[p].caller
             THEN "Only the buyer can complete this transaction"
           ELSE IF txs[t].status # "escrow" THEN "Transaction is not in escrow status"
           ELSE ""

C37_Step(p) ==
    /\ pc'[p] # pc[p] => cache' = cache
    /\ cache' # cache => (store' = store /\ pc' = pc /\ loc' = loc)
    /\ (pc[p] \in {"ct_select", "cp_select"} /\ pc'[p] # pc[p]) =>
          IF C37_Decision(p) = ""
            THEN pc'[p] # "done"
            ELSE pc'[p] = "done" /\ loc'[p].result.msg = C37_Decision(p)
    /\ (pc[p] \in {"ct_notify", "cp_notify"} /\ pc'[p] = "done") =>
          loc'[p].result.kind = "Ok"

\* C37: no step of a purchase or completion changes the cache and no change
\* of the cache changes the store or a request; what a purchase or completion
\* decides is determined by the store, whatever the cache holds and whether
\* Redis is reachable; and the request that reaches its last statement
\* succeeds also while Redis is unreachable.
C37_CacheIndependent == [][\A p \in Procs : C37_Step(p)]_vars

\* a purchase of a sold listing refused while the cache says active and
\* Redis is unreachable
C37_Witness ==
    \E p \in Procs :
        /\ pc[p] = "done"
        /\ loc[p].op = "purchase"
        /\ loc[p].result.msg = "Listing is not available for purchase"
        /\ cache.listing["L1"] = Some([status |-> "active"])
        /\ ~cache.up
        /\ listings["L1"].status = "sold"

\* the number of the seller's transactions that reached Completed
C38_Completed(u) ==
    Cardinality({t \in DOMAIN txs : txs[t].seller_id = u /\ txs[t].status = "completed"})

\* a completion between its status UPDATE and its UPDATE of the counts
C38_CountPending == \E p \in Procs : pc[p] \in {"cp_update", "cp_grant", "cp_counts"}

\* C38: a seller's successful_transactions never exceeds total_transactions,
\* and whenever no completion is between its check and its UPDATE of the
\* counts, both equal the number of that seller's Completed transactions.
C38_CountedOnce ==
    \A u \in Users :
        IsSome(trust[u]) =>
            /\ Unwrap(trust[u]).successful_transactions <= Unwrap(trust[u]).total_transactions
            /\ ~C38_CountPending =>
                  /\ Unwrap(trust[u]).total_transactions = C38_Completed(u)
                  /\ Unwrap(trust[u]).successful_transactions = C38_Completed(u)

\* the user whose trust score record the request ensures
C39_User(p) == IF loc[p].op = "create_listing" THEN loc[p].caller ELSE loc[p].target

C39_CallStep(p) ==
    (/\ pc[p] \in {"cl_insert", "cl_coupon", "cl_trust", "gp_user", "gp_ensure", "gp_trust",
                    "gp_stats"}
     /\ pc'[p] # pc[p]
     /\ C39_User(p) \in Users
     /\ IsSome(trust[C39_User(p)]))
    => trust'[C39_User(p)] = trust[C39_User(p)]

\* C39: no statement of create_listing or get_user_profile, ensure_trust_score
\* included, changes the trust score record of a user who has one.
C39_ExistingRecordKept == [][\A p \in Procs : C39_CallStep(p)]_vars

\* get_user_profile of the seller returned the score of a record with one
\* completed transaction
C39_Witness ==
    \E p \in Procs :
        /\ pc[p] = "done"
        /\ loc[p].op = "get_user_profile"
        /\ loc[p].result.kind = "Ok"
        /\ loc[p].result.val = 80 * Milli
        /\ Unwrap(trust[Seller]).total_transactions = 1
        /\ Unwrap(trust[Seller]).trust_score = 80 * Milli

\* what check_and_increment answers from the counter `row` with `threshold`
C40_Increment(row, threshold, max) == C33_Answer(row, threshold, max)

C40_Step(p) ==
    LET k == KeyOf(p)
        limit == Limits(loc[p].action)
        inc == C40_Increment(rateLimits[k], loc[p].threshold, limit.max_attempts)
    IN  /\ (pc[p] = "co_select" \/ pc'[p] = "co_select") => rateLimits' = rateLimits
        /\ (pc[p] = "co_select" /\ pc'[p] = "done") =>
              /\ loc'[p].result.allowed = inc.allowed
              /\ inc.allowed => loc'[p].result.remaining = inc.remaining + 1
              /\ ~inc.allowed => loc'[p].result.remaining = 0
        /\ (pc[p] \in {"rl_select", "rl_update", "rl_insert"} /\ pc'[p] = "done") =>
              /\ loc'[p].result.allowed = inc.allowed
              /\ loc'[p].result.remaining = inc.remaining

\* C40: no step of check_only changes a counter; check_only answers allowed
\* exactly when check_and_increment, with the same threshold on the same
\* counter, answers allowed, with remaining one higher when allowed and 0 when
\* denied; and check_and_increment, called alone, answers as that reference.
C40_CheckOnlyAgrees == [][\A p \in Procs : C40_Step(p)]_vars

\* check_only answered allowed with one attempt remaining on a live counter
\* one below the limit
C40_Witness ==
    \E p \in Procs, k \in RateKeys :
        /\ pc[p] = "done"
        /\ loc[p].op = "check_only"
        /\ loc[p].result.allowed
        /\ loc[p].result.remaining = 1
        /\ IsSome(rateLimits[k])
        /\ Unwrap(rateLimits[k]).count = Limits(k[2]).max_attempts - 1

====
